---- MODULE Spec2Model ----
(***************************************************************************)
(* A model of the pixel-art post-processor of pixegen                      *)
(* (src/unnamed/part_004, the enhanced pixel-processor.js).                *)
(*                                                                         *)
(* A raster (ImageData) is a record [width, height, data] whose data is    *)
(* the row-major sequence of its pixels, each pixel the tuple <<r,g,b,a>>   *)
(* of its four bytes (data[4i..4i+3] of the Uint8ClampedArray).             *)
(*                                                                         *)
(* Every stage of the processor is a function of its arguments (and of the *)
(* module-level palette cache); each is an operator here.  SpecQuant,      *)
(* SpecDown, SpecPost and SpecOrphan draw the arguments of a stage in      *)
(* their initial state and apply one stage per step; SpecBuf does so with  *)
(* the buffers held by reference; SpecPipe runs processImage statement by  *)
(* statement and SpecSheet runs processSpriteSheet frame by frame.         *)
(* SpecAlpha runs the pipeline on rasters of mixed alpha, and SpecCache    *)
(* makes calls of processImage and processSpriteSheet one after another.   *)
(*                                                                         *)
(* The page around the processor is modelled too: SpecPlayer is the        *)
(* AnimationPlayer (src/src/animation-player.js) under any order of its    *)
(* methods and animation frames, and SpecUI is the generate handlers of    *)
(* src/src/main.js, interleaved at their awaits with the page's controls.  *)
(*                                                                         *)
(* Numbers.  TLC has integers only.  OKLAB coordinates are kept in units   *)
(* of 1/16000; the Bayer strength and the darken factor are kept in        *)
(* thousandths (300 is 0.3).  With these units the Bayer offset            *)
(* (k/16 - 0.5) * strength is the integer (k - 8) * strength.              *)
(***************************************************************************)
EXTENDS Integers, Sequences, FiniteSets, TLC

VARIABLES
    pc,         \* "ready": arguments drawn, no stage applied; "done": applied;
                \* in a pipeline run, the statement reached
    op,         \* the stage that was applied ("none" before)
    src,        \* the raster handed to the stage
    palette,    \* the palette handed to the quantizer
    args,       \* the stage's other arguments
    out,        \* the raster the stage returned
    cache,      \* _paletteOklabCache: palette -> its OKLAB table
    opts,       \* the options object handed to processImage / processSpriteSheet
    trace,      \* the stages a pipeline run has called, with their parameters
    pixelData,  \* the raster a pipeline run (or a second pass) is working on
    frames,     \* the frames processSpriteSheet has pushed
    heap,       \* the pixel buffers that exist, by reference
    refs,       \* the references a stage was given and returned
    player,     \* the AnimationPlayer of the page
    generateBtn,        \* the Generate button (its disabled flag)
    genAllFramesBtn,    \* the Generate All Frames button (its disabled flag)
    animStateSelect,    \* the animation state selector (its value)
    viewSelect,         \* the view selector (its value)
    currentFrame,       \* let currentFrame of main.js, the selected frame index
    frameStore,         \* "stateId:viewId" -> the frame slots of that combination
    invocations,        \* the handleGenerate invocations started so far
    batch               \* the handleGenerateAllFrames run, if one is under way

pipelineVars == <<opts, trace, pixelData, frames>>
bufferVars == <<heap, refs>>
playerVars == <<player>>
uiVars == <<generateBtn, genAllFramesBtn, animStateSelect, viewSelect,
            currentFrame, frameStore, invocations, batch>>
appVars == <<playerVars, uiVars>>
vars == <<pc, op, src, palette, args, out, cache, pipelineVars, bufferVars,
          appVars>>

\* ------------------------------------------------------------------ bounds
\* Largest area (width * height) of a raster handed to a quantizer.
MaxQuantArea == 2
\* Longest palette.
MaxPaletteLen == 3
\* Largest area of a raster handed to a downscaler.
MaxSrcArea == 4
\* Largest target width and largest target height of a downscale.
MaxTarget == 3
\* Most pixels of a raster handed to a post-processing pass that differ from
\* its background.
MaxSpots == 3

\* --------------------------------------------------------- program constants
\* if (a < 10): the alpha below which a pixel counts as transparent.
AlphaCutoff == 10
\* let bestDist = Infinity (an integer above every distance of the model).
Infinity == 2147483647
\* strength = 0.3, in thousandths.
DefaultStrength == 300
\* darkenFactor = 0.35, in thousandths.
DefaultDarkenFactor == 350
\* threshold = 3
DefaultThreshold == 3

\* ------------------------------------------------------------------ rasters
NoRaster == [width |-> 0, height |-> 0, data |-> <<>>]
NoArgs == [targetW |-> 0, targetH |-> 0, strength |-> 0,
           darkenFactor |-> 0, threshold |-> 0]

NoOpts == [consoleId |-> "none"]
NoRefs == [input |-> 0, output |-> 0]

\* No pipeline run is under way.
NoPipeline ==
    /\ opts = NoOpts
    /\ trace = <<>>
    /\ pixelData = NoRaster
    /\ frames = <<>>

\* No buffer is tracked by reference.
NoBuffers ==
    /\ heap = <<>>
    /\ refs = NoRefs

\* ------------------------------------------------------------ the page
\* Two of the twelve animation states, with their frame counts: idle has
\* two frames and crouch one.
ANIMATION_STATES == [idle |-> [frameCount |-> 2], crouch |-> [frameCount |-> 1]]
\* Two of the views.
VIEWS == {"side", "front"}
DEFAULT_STATE == "idle"
DEFAULT_VIEW == "side"

\* The keys of frameStore: <<stateId, viewId>> stands for "stateId:viewId".
FrameKeys == (DOMAIN ANIMATION_STATES) \X VIEWS

\* An empty frame slot.
null == 0

\* new AnimationPlayer(previewCanvas, { fps: 8, loop: true }).  frames is the
\* length of the frame list; _animId tells whether an animation-frame
\* callback is scheduled.
NewPlayer ==
    [frames |-> 0, loop |-> TRUE, pingPong |-> FALSE, _playing |-> FALSE,
     _currentFrame |-> 0, _direction |-> 1, _animId |-> FALSE]

\* No handleGenerateAllFrames run is under way.
NoBatch == [running |-> FALSE, i |-> 0, total |-> 0]

\* The page as loaded: nothing generated, nothing stored, the first frame of
\* the default state and view selected.  A slot of frameStore holds null or
\* the number of the invocation whose sprite it stores.
PageLoaded ==
    /\ generateBtn = [disabled |-> FALSE]
    /\ genAllFramesBtn = [disabled |-> FALSE]
    /\ animStateSelect = [value |-> DEFAULT_STATE]
    /\ viewSelect = [value |-> DEFAULT_VIEW]
    /\ currentFrame = 0
    /\ frameStore = [k \in FrameKeys |->
                        [i \in 1..ANIMATION_STATES[k[1]].frameCount |-> null]]
    /\ invocations = <<>>
    /\ batch = NoBatch

\* The page is not in use: the player and the controls are as loaded.
NoApp ==
    /\ player = NewPlayer
    /\ PageLoaded

\* The pixel of raster img at column x, row y (both from 0).
PixelAt(img, x, y) == img.data[y * img.width + x + 1]

\* Math.abs
Abs(n) == IF n < 0 THEN -n ELSE n

\* [r, g, b] of a pixel.
RGBOf(px) == <<px[1], px[2], px[3]>>

Shapes(maxArea) ==
    {s \in (1..maxArea) \X (1..maxArea) : s[1] * s[2] <= maxArea}

\* The raster of shape s = <<width, height>> with the pixels d.
Raster(s, d) == [width |-> s[1], height |-> s[2], data |-> d]

\* --------------------------------------------------------------- OKLAB
\* srgbToOklab(r, g, b), in units of 1/16000, on the colours of the model:
\* the values of the source's formula (sRGB transfer function, LMS matrix,
\* cube root, OKLAB matrix) rounded to the nearest unit.  On these colours
\* and the Bayer offsets of the model the order of the squared distances is
\* the order of the source's floating-point distances.
srgbToOklab(r, g, b) ==
    CASE <<r, g, b>> = <<0, 0, 0>>       -> <<0, 0, 0>>
      [] <<r, g, b>> = <<101, 101, 101>> -> <<8108, 0, 0>>
      [] <<r, g, b>> = <<174, 174, 174>> -> <<12013, 0, 0>>
      [] <<r, g, b>> = <<128, 128, 128>> -> <<9598, 0, 0>>
      [] <<r, g, b>> = <<255, 0, 0>>     -> <<10047, 3598, 2014>>
      [] <<r, g, b>> = <<252, 2, 1>>     -> <<9964, 3560, 1993>>
      [] <<r, g, b>> = <<168, 32, 78>>   -> <<7761, 2732, 338>>
      [] <<r, g, b>> = <<15, 100, 188>>  -> <<8118, -665, -2425>>
      [] <<r, g, b>> = <<254, 254, 255>> -> <<15957, 6, -20>>

\* Squared Euclidean distance in OKLAB.
oklabDistSq(lab1, lab2) ==
    LET dL == lab1[1] - lab2[1]
        da == lab1[2] - lab2[2]
        db == lab1[3] - lab2[3]
    IN  dL * dL + da * da + db * db

\* palette.map(([r, g, b]) => srgbToOklab(r, g, b))
paletteToOklab(pal) ==
    [j \in 1..Len(pal) |-> srgbToOklab(pal[j][1], pal[j][2], pal[j][3])]

\* A cache that never answers.
cacheHas_never(c, pal) == FALSE

\* _paletteOklabCache.has(palette).  A palette stands for the reference to
\* it: the palettes of the console table are distinct arrays that are never
\* written to.
cacheHas(c, pal) == pal \in DOMAIN c

\* getPaletteOklab's result: the stored table when the cache has the palette.
getPaletteOklab(c, pal) ==
    IF cacheHas(c, pal) THEN c[pal] ELSE paletteToOklab(pal)

\* getPaletteOklab's effect on the cache.
cacheAfterGet(c, pal) ==
    IF cacheHas(c, pal) THEN c
    ELSE [p \in DOMAIN c \cup {pal} |->
            IF p \in DOMAIN c THEN c[p] ELSE paletteToOklab(pal)]

EmptyCache == [p \in {} |-> <<>>]

\* ----------------------------------------------------------- nearest search
\* if (d < bestDist), with the opposite bias on an exact tie.
closer_orEqual(d, bestDist) == d <= bestDist

\* if (d < bestDist)
closer(d, bestDist) == d < bestDist

\* The loop over j of the nearest search, from index j (from 0) on.
RECURSIVE nearestFrom(_, _, _, _, _)
nearestFrom(lab, oklabPalette, j, bestIdx, bestDist) ==
    IF j >= Len(oklabPalette) THEN bestIdx
    ELSE LET d == oklabDistSq(lab, oklabPalette[j + 1])
         IN  IF closer(d, bestDist)
             THEN nearestFrom(lab, oklabPalette, j + 1, j, d)
             ELSE nearestFrom(lab, oklabPalette, j + 1, bestIdx, bestDist)

\* let bestIdx = 0; let bestDist = Infinity; for (j ...) ...
nearestIndex(lab, oklabPalette) ==
    nearestFrom(lab, oklabPalette, 0, 0, Infinity)

\* dst[i..i+3] = the pixel's own colour (no palette lookup), original alpha.
writeQuantized_ownColour(px, pal, bestIdx) == px

\* dst[i..i+2] = palette[bestIdx]; dst[i+3] = a
writeQuantized(px, pal, bestIdx) ==
    <<pal[bestIdx + 1][1], pal[bestIdx + 1][2], pal[bestIdx + 1][3], px[4]>>

\* The colour cleared and the alpha left as it was.
transparentPixel_ownAlpha(px) == <<0, 0, 0, px[4]>>

\* dst[i] = dst[i+1] = dst[i+2] = 0; dst[i+3] = 0
transparentPixel(px) == <<0, 0, 0, 0>>

\* One pixel of quantizeOklab.
oklabPixel(px, pal, oklabPalette) ==
    IF px[4] < AlphaCutoff THEN transparentPixel(px)
    ELSE writeQuantized(px, pal,
             nearestIndex(srgbToOklab(px[1], px[2], px[3]), oklabPalette))

quantizeOklab(imageData, pal, c) ==
    LET oklabPalette == getPaletteOklab(c, pal)
    IN  [width  |-> imageData.width,
         height |-> imageData.height,
         data   |-> [i \in 1..Len(imageData.data) |->
                        oklabPixel(imageData.data[i], pal, oklabPalette)]]

\* The numerators k of bayer4's entries k/16 - 0.5.
bayer4 == << <<0, 8, 2, 10>>, <<12, 4, 14, 6>>,
             <<3, 11, 1, 9>>, <<15, 7, 13, 5>> >>

\* The side of the Bayer matrix: bayer4[y % 4][x % 4].
BayerSize == 4

\* The row taken from x / 4 instead of from y.
bayerThreshold_rowFromX(x, y, strength) ==
    (bayer4[((x \div 4) % 4) + 1][(x % 4) + 1] - 8) * strength

\* The matrix entry multiplied by 0.3 whatever the strength.
bayerThreshold_fixedStrength(x, y, strength) ==
    (bayer4[(y % 4) + 1][(x % 4) + 1] - 8) * DefaultStrength

\* bayer4[y % 4][x % 4] * strength, in units of 1/16000.
bayerThreshold(x, y, strength) ==
    (bayer4[(y % 4) + 1][(x % 4) + 1] - 8) * strength

\* One pixel of quantizeOklabBayer, at column x, row y.
bayerPixel(px, x, y, pal, oklabPalette, strength) ==
    IF px[4] < AlphaCutoff THEN transparentPixel(px)
    ELSE LET pixelOklab == srgbToOklab(px[1], px[2], px[3])
             ditheredOklab == <<pixelOklab[1] + bayerThreshold(x, y, strength),
                                pixelOklab[2], pixelOklab[3]>>
         IN  writeQuantized(px, pal, nearestIndex(ditheredOklab, oklabPalette))

quantizeOklabBayer(imageData, pal, strength, c) ==
    LET oklabPalette == getPaletteOklab(c, pal)
        w == imageData.width
    IN  [width  |-> w,
         height |-> imageData.height,
         data   |-> [i \in 1..(w * imageData.height) |->
                        bayerPixel(imageData.data[i], (i - 1) % w, (i - 1) \div w,
                                   pal, oklabPalette, strength)]]

\* ----------------------------------------------------------- bit reduction
\* The values a channel can take at 5 bits, as bytes: round(k * 255 / 31).
Levels5 == {(2 * k * 255 + 31) \div 62 : k \in 0..31}

\* The nearest representable value of a channel.
reduceChannel(v) ==
    CHOOSE l \in Levels5 :
        \A m \in Levels5 :
            Abs(l - v) < Abs(m - v) \/ (Abs(l - v) = Abs(m - v) /\ l <= m)

\* reduceImageTo15Bit (palettes.js): every colour channel to its nearest
\* representable value, alpha untouched.
reduceImageTo15Bit(data) ==
    [i \in 1..Len(data) |->
        <<reduceChannel(data[i][1]), reduceChannel(data[i][2]),
          reduceChannel(data[i][3]), data[i][4]>>]

\* A copy of the raster, reduced in place.
quantizeBitReduce(imageData) ==
    [width  |-> imageData.width,
     height |-> imageData.height,
     data   |-> reduceImageTo15Bit(imageData.data)]

\* ------------------------------------------------- the quantizer's inputs
\* Pixels: opaque, half transparent, alpha exactly at the cutoff, alpha just
\* below it with a colour, and fully transparent.
QuantPixels ==
    { <<128, 128, 128, 255>>, <<255, 0, 0, 128>>, <<101, 101, 101, 10>>,
      <<255, 0, 0, 9>>, <<0, 0, 0, 0>> }

\* Palette entries: NES $00 dark gray, $10 light gray, $15 red.
PaletteColours ==
    { <<101, 101, 101>>, <<174, 174, 174>>, <<168, 32, 78>> }

Palettes == UNION { [1..n -> PaletteColours] : n \in 1..MaxPaletteLen }

Strengths == {0, DefaultStrength, 2 * DefaultStrength}

\* A row and a column one pixel longer than the Bayer matrix, so that the
\* last pixel falls on the matrix entry of the first.
StripShapes == { <<BayerSize + 1, 1>>, <<1, BayerSize + 1>> }

\* The strip of shape s with the pixel e at both ends and m between them.
StripRaster(s, e, m) ==
    Raster(s, [i \in 1..(s[1] * s[2]) |->
                  IF i = 1 \/ i = s[1] * s[2] THEN e ELSE m])

\* --------------------------------------------------- specification SpecQuant
InitQuant ==
    /\ pc = "ready"
    /\ op = "none"
    /\ \/ \E s \in Shapes(MaxQuantArea) :
            \E d \in [1..(s[1] * s[2]) -> QuantPixels] : src = Raster(s, d)
       \/ \E s \in StripShapes, e \in QuantPixels, m \in QuantPixels :
            src = StripRaster(s, e, m)
    /\ palette \in Palettes
    /\ args = NoArgs
    /\ out = NoRaster
    /\ cache = EmptyCache
    /\ NoPipeline
    /\ NoBuffers
    /\ NoApp

QuantizeOklab ==
    /\ pc = "ready"
    /\ pc' = "done"
    /\ op' = "quantizeOklab"
    /\ out' = quantizeOklab(src, palette, cache)
    /\ cache' = cacheAfterGet(cache, palette)
    /\ UNCHANGED <<src, palette, args, pipelineVars, bufferVars, appVars>>

QuantizeOklabBayer ==
    /\ pc = "ready"
    /\ \E strength \in Strengths :
        /\ args' = [args EXCEPT !.strength = strength]
        /\ out' = quantizeOklabBayer(src, palette, strength, cache)
    /\ pc' = "done"
    /\ op' = "quantizeOklabBayer"
    /\ cache' = cacheAfterGet(cache, palette)
    /\ UNCHANGED <<src, palette, pipelineVars, bufferVars, appVars>>

QuantizeBitReduce ==
    /\ pc = "ready"
    /\ pc' = "done"
    /\ op' = "quantizeBitReduce"
    /\ out' = quantizeBitReduce(src)
    /\ UNCHANGED <<src, palette, args, cache, pipelineVars, bufferVars, appVars>>

NextQuant == QuantizeOklab \/ QuantizeOklabBayer \/ QuantizeBitReduce

SpecQuant == InitQuant /\ [][NextQuant]_vars

\* --------------------------------------------------------------- downscale
\* The width of the rows handed to a downscaler besides the small rasters;
\* no raster here is wider or higher.
RowWidth == 15

\* The <<i, srcN, targetN>> with srcN, targetN <= RowWidth and i <= targetN at
\* which the double product i * (srcN / targetN) is below the integer
\* i * srcN / targetN it stands for: 15 / 11 and 15 / 13 are rounded down to
\* a double, and 11 * (15 / 11) = 13 * (15 / 13) = 14.999999999999998.
RoundedBelow == { <<11, 15, 11>>, <<13, 15, 13>> }

\* Math.floor(i * cellW) with cellW = srcN / targetN, both in doubles: the
\* source coordinate at which output cell i begins.
cellStart(i, srcN, targetN) ==
    IF <<i, srcN, targetN>> \in RoundedBelow
    THEN ((i * srcN) \div targetN) - 1
    ELSE (i * srcN) \div targetN

\* The source pixels of output cell (x, y) in the order the two loops visit
\* them: rows sy0..sy1-1, and in each row columns sx0..sx1-1.
regionOf(sourceData, targetW, targetH, x, y) ==
    LET sx0 == cellStart(x, sourceData.width, targetW)
        sy0 == cellStart(y, sourceData.height, targetH)
        sx1 == cellStart(x + 1, sourceData.width, targetW)
        sy1 == cellStart(y + 1, sourceData.height, targetH)
        rw == sx1 - sx0
        n == IF rw > 0 /\ sy1 > sy0 THEN rw * (sy1 - sy0) ELSE 0
    IN  [k \in 1..n |->
            PixelAt(sourceData, sx0 + ((k - 1) % rw), sy0 + ((k - 1) \div rw))]

\* The grouping key, from the full channel values (no shift).
binKey_exact(px) == px

\* `${r >> 3},${g >> 3},${b >> 3},${a >> 3}`
binKey(px) == <<px[1] \div 8, px[2] \div 8, px[3] \div 8, px[4] \div 8>>

\* (colorCounts.get(key) || 0) + 1 at the k-th pixel of the region.
runningCount(region, k) ==
    Cardinality({j \in 1..k : binKey(region[j]) = binKey(region[k])})

\* if (count >= bestCount): the last bin to reach the best count wins.
beatsBest_orEqual(count, bestCount) == count >= bestCount

\* if (count > bestCount)
beatsBest(count, bestCount) == count > bestCount

\* The scan of a region from its k-th pixel on.
RECURSIVE modeScan(_, _, _, _)
modeScan(region, k, bestCount, best) ==
    IF k > Len(region) THEN best
    ELSE IF beatsBest(runningCount(region, k), bestCount)
         THEN modeScan(region, k + 1, runningCount(region, k), region[k])
         ELSE modeScan(region, k + 1, bestCount, best)

\* let bestCount = 1: a bin needs two pixels to be taken.
modeCell_startsAtOne(region) == modeScan(region, 1, 1, <<0, 0, 0, 0>>)

\* let bestCount = 0; let bestR = 0, bestG = 0, bestB = 0, bestA = 0; ...
modeCell(region) == modeScan(region, 1, 0, <<0, 0, 0, 0>>)

downscaleMode(sourceData, targetW, targetH) ==
    [width  |-> targetW,
     height |-> targetH,
     data   |-> [i \in 1..(targetW * targetH) |->
                    modeCell(regionOf(sourceData, targetW, targetH,
                                      (i - 1) % targetW, (i - 1) \div targetW))]]

RECURSIVE channelSum(_, _, _)
channelSum(region, c, k) ==
    IF k = 0 THEN 0 ELSE region[k][c] + channelSum(region, c, k - 1)

\* The quotient cut off instead of rounded.
roundedMean_truncated(sum, count) == sum \div count

\* Math.round(sum / count): to the nearest integer, halves upwards.
roundedMean(sum, count) == (2 * sum + count) \div (2 * count)

\* One output pixel of downscaleAverage.  With no covered pixel the
\* quotients are 0/0 = NaN, which the Uint8ClampedArray stores as 0.
averageCell(region) ==
    IF Len(region) = 0 THEN <<0, 0, 0, 0>>
    ELSE [c \in 1..4 |->
            roundedMean(channelSum(region, c, Len(region)), Len(region))]

downscaleAverage(sourceData, targetW, targetH) ==
    [width  |-> targetW,
     height |-> targetH,
     data   |-> [i \in 1..(targetW * targetH) |->
                    averageCell(regionOf(sourceData, targetW, targetH,
                                         (i - 1) % targetW, (i - 1) \div targetW))]]

\* ------------------------------------------------ the downscaler's inputs
\* Two reds of one 5-bit bin, a blue, and a transparent pixel.
DownPixels ==
    { <<255, 0, 0, 255>>, <<252, 2, 1, 255>>, <<15, 100, 188, 255>>,
      <<0, 0, 0, 0>> }

TargetSizes == (1..MaxTarget) \X (1..MaxTarget)

\* Rows of RowWidth pixels: one pixel value, and another one in the last column.
RowRaster(px, last) ==
    Raster(<<RowWidth, 1>>,
           [i \in 1..RowWidth |-> IF i = RowWidth THEN last ELSE px])

\* The target sizes drawn for the raster img: every small size for a small
\* raster, every width up to its own for a row.
TargetsOf(img) ==
    IF img.width < RowWidth THEN TargetSizes
    ELSE {<<w, 1>> : w \in 1..img.width}

\* ---------------------------------------------------- specification SpecDown
InitDown ==
    /\ pc = "ready"
    /\ op = "none"
    /\ \/ \E s \in Shapes(MaxSrcArea) :
            \E d \in [1..(s[1] * s[2]) -> DownPixels] : src = Raster(s, d)
       \/ \E px \in DownPixels, last \in DownPixels :
            src = RowRaster(px, last)
    /\ palette = <<>>
    /\ args = NoArgs
    /\ out = NoRaster
    /\ cache = EmptyCache
    /\ NoPipeline
    /\ NoBuffers
    /\ NoApp

DownscaleMode ==
    /\ pc = "ready"
    /\ \E t \in TargetsOf(src) :
        /\ args' = [args EXCEPT !.targetW = t[1], !.targetH = t[2]]
        /\ out' = downscaleMode(src, t[1], t[2])
    /\ pc' = "done"
    /\ op' = "downscaleMode"
    /\ UNCHANGED <<src, palette, cache, pipelineVars, bufferVars, appVars>>

DownscaleAverage ==
    /\ pc = "ready"
    /\ \E t \in TargetsOf(src) :
        /\ args' = [args EXCEPT !.targetW = t[1], !.targetH = t[2]]
        /\ out' = downscaleAverage(src, t[1], t[2])
    /\ pc' = "done"
    /\ op' = "downscaleAverage"
    /\ UNCHANGED <<src, palette, cache, pipelineVars, bufferVars, appVars>>

NextDown == DownscaleMode \/ DownscaleAverage

SpecDown == InitDown /\ [][NextDown]_vars

\* ----------------------------------------------------------- post-processing
\* Math.floor(data * (1 - darkenFactor)): the product cut off.
darken_truncated(v, darkenFactor) == (v * (1000 - darkenFactor)) \div 1000

\* Math.round(data * (1 - darkenFactor)), darkenFactor in thousandths.
darken(v, darkenFactor) == (v * (1000 - darkenFactor) + 500) \div 1000

\* const neighbors = [[x-1,y],[x+1,y],[x,y-1],[x,y+1]]
neighbors4(x, y) == << <<x - 1, y>>, <<x + 1, y>>, <<x, y - 1>>, <<x, y + 1>> >>

\* The loop over the four neighbours: one outside the raster, or one with
\* alpha < 10, makes the pixel an edge.
isEdge(imageData, x, y) ==
    \E k \in 1..4 :
        LET nx == neighbors4(x, y)[k][1]
            ny == neighbors4(x, y)[k][2]
        IN  \/ nx < 0 \/ nx >= imageData.width
            \/ ny < 0 \/ ny >= imageData.height
            \/ PixelAt(imageData, nx, ny)[4] < AlphaCutoff

\* One pixel of generateOutlines' result.
outlinePixel(imageData, x, y, darkenFactor) ==
    LET px == PixelAt(imageData, x, y)
    IN  IF px[4] < AlphaCutoff THEN px
        ELSE IF isEdge(imageData, x, y)
             THEN <<darken(px[1], darkenFactor), darken(px[2], darkenFactor),
                    darken(px[3], darkenFactor), px[4]>>
             ELSE px

generateOutlines(imageData, darkenFactor) ==
    [width  |-> imageData.width,
     height |-> imageData.height,
     data   |-> [i \in 1..(imageData.width * imageData.height) |->
                    outlinePixel(imageData, (i - 1) % imageData.width,
                                 (i - 1) \div imageData.width, darkenFactor)]]

\* The offsets <<dx, dy>> of the eight neighbours in the order of the loops
\* over dy and dx.
neighbors8 == << <<-1, -1>>, <<0, -1>>, <<1, -1>>, <<-1, 0>>, <<1, 0>>,
                 <<-1, 1>>, <<0, 1>>, <<1, 1>> >>

\* The k-th neighbour of (x, y).
neighborAt(imageData, x, y, k) ==
    PixelAt(imageData, x + neighbors8[k][1], y + neighbors8[k][2])

\* The test against threshold instead of threshold * 3.
similar_noFactor(p, q, threshold) ==
    Abs(p[1] - q[1]) + Abs(p[2] - q[2]) + Abs(p[3] - q[3]) < threshold

\* Math.abs(dR) + Math.abs(dG) + Math.abs(dB) < threshold * 3
similar(p, q, threshold) ==
    Abs(p[1] - q[1]) + Abs(p[2] - q[2]) + Abs(p[3] - q[3]) < threshold * 3

sameCount(imageData, x, y, threshold) ==
    Cardinality({k \in 1..8 :
        similar(neighborAt(imageData, x, y, k), PixelAt(imageData, x, y),
                threshold)})

\* No neighbour passed over, whatever its alpha.
skipsNeighbor_never(px) == FALSE

\* if (data[nIdx + 3] < 10) continue
skipsNeighbor(px) == px[4] < AlphaCutoff

\* (neighborColors.get(key) || 0) + 1 at the k-th neighbour: the opaque
\* neighbours up to it that have its colour.
neighborCount(imageData, x, y, k) ==
    Cardinality({j \in 1..k :
        /\ ~skipsNeighbor(neighborAt(imageData, x, y, j))
        /\ RGBOf(neighborAt(imageData, x, y, j))
             = RGBOf(neighborAt(imageData, x, y, k))})

\* The test c >= maxC: a later colour with the same count takes over.
moreFrequent_orEqual(c, maxC) == c >= maxC

\* if (c > maxC)
moreFrequent(c, maxC) == c > maxC

\* The second loop over the neighbours, from the k-th on.
RECURSIVE bestColorFrom(_, _, _, _, _, _)
bestColorFrom(imageData, x, y, k, maxC, bestColor) ==
    IF k > 8 THEN bestColor
    ELSE IF skipsNeighbor(neighborAt(imageData, x, y, k))
         THEN bestColorFrom(imageData, x, y, k + 1, maxC, bestColor)
         ELSE IF moreFrequent(neighborCount(imageData, x, y, k), maxC)
              THEN bestColorFrom(imageData, x, y, k + 1,
                                 neighborCount(imageData, x, y, k),
                                 RGBOf(neighborAt(imageData, x, y, k)))
              ELSE bestColorFrom(imageData, x, y, k + 1, maxC, bestColor)

\* The orphan moved halfway to bestColor instead of set to it.
replacedPixel_blended(px, bestColor) ==
    <<(px[1] + bestColor[1]) \div 2, (px[2] + bestColor[2]) \div 2,
      (px[3] + bestColor[3]) \div 2, px[4]>>

\* dst[idx] = bestColor[0]; dst[idx + 1] = bestColor[1];
\* dst[idx + 2] = bestColor[2]: the alpha stays the copied one.
replacedPixel(px, bestColor) ==
    <<bestColor[1], bestColor[2], bestColor[3], px[4]>>

\* One pixel of cleanupOrphans' result.
cleanupPixel(imageData, x, y, threshold) ==
    LET px == PixelAt(imageData, x, y)
    IN  IF /\ 1 <= x /\ x < imageData.width - 1
           /\ 1 <= y /\ y < imageData.height - 1
           /\ px[4] >= AlphaCutoff
           /\ sameCount(imageData, x, y, threshold) = 0
        THEN replacedPixel(px, bestColorFrom(imageData, x, y, 1, 0, RGBOf(px)))
        ELSE px

\* The pass with one buffer: each pixel computed from the raster as the
\* pixels before it in row-major order have left it.
RECURSIVE inPlaceFrom(_, _, _)
inPlaceFrom(imageData, i, threshold) ==
    IF i > imageData.width * imageData.height THEN imageData
    ELSE inPlaceFrom(
             [imageData EXCEPT !.data[i] =
                 cleanupPixel(imageData, (i - 1) % imageData.width,
                              (i - 1) \div imageData.width, threshold)],
             i + 1, threshold)

cleanupOrphans_inPlace(imageData, threshold) ==
    inPlaceFrom(imageData, 1, threshold)

\* The pass reads data, the input, and writes dst, the copy it returns.
cleanupOrphans(imageData, threshold) ==
    [width  |-> imageData.width,
     height |-> imageData.height,
     data   |-> [i \in 1..(imageData.width * imageData.height) |->
                    cleanupPixel(imageData, (i - 1) % imageData.width,
                                 (i - 1) \div imageData.width, threshold)]]

\* -------------------------------------------- the post-processor's inputs
\* Two reds that differ by 6 in all, a blue, and a transparent pixel.
PostPixels ==
    { <<255, 0, 0, 255>>, <<252, 2, 1, 255>>, <<15, 100, 188, 255>>,
      <<0, 0, 0, 0>> }

\* Rasters narrower than 3, with one interior pixel, and with two.
PostShapes == { <<2, 3>>, <<3, 3>>, <<4, 3>> }

\* The raster of shape s that is the background pixel bg everywhere but at
\* the positions spots, where it is v.
SpotRaster(s, bg, spots, v) ==
    Raster(s, [i \in 1..(s[1] * s[2]) |-> IF i \in spots THEN v[i] ELSE bg])

\* The sets of maxSpots positions or fewer of a raster of shape s.
SpotSets(s, maxSpots) ==
    {q \in SUBSET (1..(s[1] * s[2])) : Cardinality(q) <= maxSpots}

\* The positions of a raster of shape s outside its first and last column.
InnerColumns(s) ==
    {i \in 1..(s[1] * s[2]) : (i - 1) % s[1] \in 1..(s[1] - 2)}

\* The spot sets of SpecPost: in a raster wider than 3 the spots keep to the
\* inner columns, the first and the last column being background.
PostSpotSets(s) ==
    IF s[1] > 3
    THEN {q \in SpotSets(s, MaxSpots) : q \subseteq InnerColumns(s)}
    ELSE SpotSets(s, MaxSpots)

DarkenFactors == {DefaultDarkenFactor, 500}

Thresholds == {1, DefaultThreshold}

\* ---------------------------------------------------- specification SpecPost
InitPost ==
    /\ pc = "ready"
    /\ op = "none"
    /\ \E s \in PostShapes, bg \in PostPixels :
        \E spots \in PostSpotSets(s) :
            \E v \in [spots -> PostPixels \ {bg}] :
                src = SpotRaster(s, bg, spots, v)
    /\ palette = <<>>
    /\ args = NoArgs
    /\ out = NoRaster
    /\ cache = EmptyCache
    /\ NoPipeline
    /\ NoBuffers
    /\ NoApp

GenerateOutlines ==
    /\ pc = "ready"
    /\ \E darkenFactor \in DarkenFactors :
        /\ args' = [args EXCEPT !.darkenFactor = darkenFactor]
        /\ out' = generateOutlines(src, darkenFactor)
    /\ pc' = "done"
    /\ op' = "generateOutlines"
    /\ UNCHANGED <<src, palette, cache, pipelineVars, bufferVars, appVars>>

CleanupOrphans ==
    /\ pc = "ready"
    /\ \E threshold \in Thresholds :
        /\ args' = [args EXCEPT !.threshold = threshold]
        /\ out' = cleanupOrphans(src, threshold)
    /\ pc' = "done"
    /\ op' = "cleanupOrphans"
    /\ UNCHANGED <<src, palette, cache, pipelineVars, bufferVars, appVars>>

NextPost == GenerateOutlines \/ CleanupOrphans

SpecPost == InitPost /\ [][NextPost]_vars

\* -------------------------------------------------- specification SpecOrphan
\* cleanupOrphans applied once and then again to its own result, on 3x3
\* rasters whose eight border pixels are drawn freely, and on the uniform
\* rasters with at most one pixel off the background.
\* An opaque red, an opaque blue, and a transparent pixel.
RingPixels == { <<255, 0, 0, 255>>, <<15, 100, 188, 255>>, <<0, 0, 0, 0>> }

\* The 3x3 raster with the pixels ring around the pixel centre.
RingRaster(ring, centre) ==
    Raster(<<3, 3>>, [i \in 1..9 |-> IF i < 5 THEN ring[i]
                                     ELSE IF i = 5 THEN centre
                                     ELSE ring[i - 1]])

InitOrphan ==
    /\ pc = "ready"
    /\ op = "none"
    /\ \/ \E ring \in [1..8 -> RingPixels], centre \in PostPixels :
            src = RingRaster(ring, centre)
       \/ \E s \in PostShapes, bg \in PostPixels :
            \E spots \in SpotSets(s, 1) :
                \E v \in [spots -> PostPixels \ {bg}] :
                    src = SpotRaster(s, bg, spots, v)
    /\ palette = <<>>
    /\ args = NoArgs
    /\ out = NoRaster
    /\ cache = EmptyCache
    /\ NoPipeline
    /\ NoBuffers
    /\ NoApp

\* cleanupOrphans(pixelData) with pixelData the result of the first pass.
CleanupOrphansAgain ==
    /\ pc = "done"
    /\ op = "cleanupOrphans"
    /\ pixelData' = out
    /\ out' = cleanupOrphans(out, args.threshold)
    /\ pc' = "again"
    /\ UNCHANGED <<op, src, palette, args, cache, opts, trace, frames,
                   bufferVars, appVars>>

NextOrphan == CleanupOrphans \/ CleanupOrphansAgain

SpecOrphan == InitOrphan /\ [][NextOrphan]_vars

\* ----------------------------------------------------- specification SpecBuf
\* The stages with their buffers by reference.  heap[ref] is the ImageData
\* behind the reference ref; a stage is given refs.input and returns
\* refs.output.  An allocation yields the heap after it and the reference of
\* the buffer it made.
\* new ImageData(w, h): a fresh buffer, all bytes 0.
newImageData(h, w, ht) ==
    [heap |-> Append(h, [width |-> w, height |-> ht,
                         data |-> [i \in 1..(w * ht) |-> <<0, 0, 0, 0>>]]),
     ref  |-> Len(h) + 1]

\* new ImageData(data, w, h): an ImageData over the very array it was given.
copyImageData_shared(h, ref) == [heap |-> h, ref |-> ref]

\* new ImageData(new Uint8ClampedArray(data), w, h): a fresh buffer holding
\* a copy of the bytes of heap[ref].
copyImageData(h, ref) == [heap |-> Append(h, h[ref]), ref |-> Len(h) + 1]

\* The writes dst[...] = ... of a stage, all of them: the buffer behind ref
\* comes to hold data.
writeInto(h, ref, data) == [h EXCEPT ![ref].data = data]

\* A stage that fills the buffer of the allocation a with the raster result
\* and returns it.
returnsBuffer(a, result) ==
    /\ heap' = writeInto(a.heap, a.ref, result.data)
    /\ refs' = [refs EXCEPT !.output = a.ref]
    /\ out' = result
    /\ pc' = "done"

BufPalettes == {p \in Palettes : Len(p) = 1}

InitBuf ==
    /\ pc = "ready"
    /\ op = "none"
    /\ \/ \E s \in Shapes(MaxQuantArea) :
            \E d \in [1..(s[1] * s[2]) -> PostPixels] : src = Raster(s, d)
       \/ \E bg \in PostPixels :
            \E spots \in SpotSets(<<3, 3>>, 1) :
                \E v \in [spots -> PostPixels \ {bg}] :
                    src = SpotRaster(<<3, 3>>, bg, spots, v)
    /\ palette \in BufPalettes
    /\ args = NoArgs
    /\ out = NoRaster
    /\ cache = EmptyCache
    /\ NoPipeline
    /\ NoApp
    /\ heap = <<src>>
    /\ refs = [input |-> 1, output |-> 0]

BufDownscaleMode ==
    /\ pc = "ready"
    /\ \E t \in TargetSizes :
        /\ args' = [args EXCEPT !.targetW = t[1], !.targetH = t[2]]
        /\ returnsBuffer(newImageData(heap, t[1], t[2]),
                         downscaleMode(heap[refs.input], t[1], t[2]))
    /\ op' = "downscaleMode"
    /\ UNCHANGED <<src, palette, cache, pipelineVars, appVars>>

BufDownscaleAverage ==
    /\ pc = "ready"
    /\ \E t \in TargetSizes :
        /\ args' = [args EXCEPT !.targetW = t[1], !.targetH = t[2]]
        /\ returnsBuffer(newImageData(heap, t[1], t[2]),
                         downscaleAverage(heap[refs.input], t[1], t[2]))
    /\ op' = "downscaleAverage"
    /\ UNCHANGED <<src, palette, cache, pipelineVars, appVars>>

BufQuantizeOklab ==
    /\ pc = "ready"
    /\ returnsBuffer(newImageData(heap, heap[refs.input].width,
                                  heap[refs.input].height),
                     quantizeOklab(heap[refs.input], palette, cache))
    /\ op' = "quantizeOklab"
    /\ cache' = cacheAfterGet(cache, palette)
    /\ UNCHANGED <<src, palette, args, pipelineVars, appVars>>

BufQuantizeOklabBayer ==
    /\ pc = "ready"
    /\ \E strength \in Strengths :
        /\ args' = [args EXCEPT !.strength = strength]
        /\ returnsBuffer(newImageData(heap, heap[refs.input].width,
                                      heap[refs.input].height),
                         quantizeOklabBayer(heap[refs.input], palette,
                                            strength, cache))
    /\ op' = "quantizeOklabBayer"
    /\ cache' = cacheAfterGet(cache, palette)
    /\ UNCHANGED <<src, palette, pipelineVars, appVars>>

BufQuantizeBitReduce ==
    /\ pc = "ready"
    /\ returnsBuffer(copyImageData(heap, refs.input),
                     quantizeBitReduce(heap[refs.input]))
    /\ op' = "quantizeBitReduce"
    /\ UNCHANGED <<src, palette, args, cache, pipelineVars, appVars>>

BufGenerateOutlines ==
    /\ pc = "ready"
    /\ \E darkenFactor \in DarkenFactors :
        /\ args' = [args EXCEPT !.darkenFactor = darkenFactor]
        /\ returnsBuffer(copyImageData(heap, refs.input),
                         generateOutlines(heap[refs.input], darkenFactor))
    /\ op' = "generateOutlines"
    /\ UNCHANGED <<src, palette, cache, pipelineVars, appVars>>

BufCleanupOrphans ==
    /\ pc = "ready"
    /\ \E threshold \in Thresholds :
        /\ args' = [args EXCEPT !.threshold = threshold]
        /\ returnsBuffer(copyImageData(heap, refs.input),
                         cleanupOrphans(heap[refs.input], threshold))
    /\ op' = "cleanupOrphans"
    /\ UNCHANGED <<src, palette, cache, pipelineVars, appVars>>

NextBuf ==
    \/ BufDownscaleMode
    \/ BufDownscaleAverage
    \/ BufQuantizeOklab
    \/ BufQuantizeOklabBayer
    \/ BufQuantizeBitReduce
    \/ BufGenerateOutlines
    \/ BufCleanupOrphans

SpecBuf == InitBuf /\ [][NextBuf]_vars

\* ------------------------------------------------------------- the pipeline
\* CONSOLES (palettes.js): a console with a fixed palette (four NES entries:
\* $0D black, $00 dark gray, $10 light gray, $15 red), a second one with a
\* palette of two grays, and a console with bit reduction, each with two
\* sprite sizes.
CONSOLES ==
    [nes  |-> [quantizeMode |-> "palette",
               palette |-> << <<0, 0, 0>>, <<101, 101, 101>>,
                              <<174, 174, 174>>, <<168, 32, 78>> >>,
               defaultSize |-> "small",
               spriteSizes |-> [small |-> [w |-> 2, h |-> 1],
                                large |-> [w |-> 3, h |-> 3]]],
     gb   |-> [quantizeMode |-> "palette",
               palette |-> << <<101, 101, 101>>, <<174, 174, 174>> >>,
               defaultSize |-> "small",
               spriteSizes |-> [small |-> [w |-> 2, h |-> 1],
                                large |-> [w |-> 3, h |-> 3]]],
     snes |-> [quantizeMode |-> "bitreduce",
               palette |-> <<>>,
               defaultSize |-> "small",
               spriteSizes |-> [small |-> [w |-> 2, h |-> 1],
                                large |-> [w |-> 3, h |-> 3]]]]

\* const effectiveSize = spriteSize || consoleConfig.defaultSize
\* ("" stands for an absent spriteSize).
effectiveSize(o, consoleConfig) ==
    IF o.spriteSize = "" THEN consoleConfig.defaultSize ELSE o.spriteSize

\* quant.reduce(imageData, 1) of the rgbquant package with no dithering
\* kernel: a pixel with alpha 0 becomes 0, every other pixel the palette
\* entry nearest to it in sRGB (the first of equally near ones), opaque.
RECURSIVE nearestSrgbFrom(_, _, _, _)
nearestSrgbFrom(px, pal, j, best) ==
    IF j > Len(pal) THEN best
    ELSE LET d(q) == (px[1] - q[1]) * (px[1] - q[1])
                       + (px[2] - q[2]) * (px[2] - q[2])
                       + (px[3] - q[3]) * (px[3] - q[3])
         IN  nearestSrgbFrom(px, pal, j + 1,
                             IF d(pal[j]) < d(pal[best]) THEN j ELSE best)

rgbQuantReduce(imageData, pal) ==
    [i \in 1..Len(imageData.data) |->
        LET px == imageData.data[i]
        IN  IF px[4] = 0 THEN <<0, 0, 0, 0>>
            ELSE LET q == pal[nearestSrgbFrom(px, pal, 1, 1)]
                 IN  <<q[1], q[2], q[3], 255>>]

\* quantizePalette: result.data.set(reduced)
quantizePalette(imageData, pal) ==
    [width  |-> imageData.width,
     height |-> imageData.height,
     data   |-> rgbQuantReduce(imageData, pal)]

\* The strength taken from the options.
bayerStrength_fromOptions(o) == o.ditherStrength

\* quantizeOklabBayer(downscaled, consoleConfig.palette): no third argument,
\* so strength = 0.3.
bayerStrength(o) == DefaultStrength

\* cleanupOrphans(pixelData): no second argument, so threshold = 3.
cleanupThreshold(o) == DefaultThreshold

\* generateOutlines(pixelData, 0.5)
outlineDarkenFactor_half(o) == 500

\* generateOutlines(pixelData): no second argument, so darkenFactor = 0.35.
outlineDarkenFactor(o) == DefaultDarkenFactor

\* Step 3 entered whatever the pipeline.
postProcessing_always(o) == TRUE

\* if (pipeline === 'enhanced'), around step 3
postProcessing(o) == o.pipeline = "enhanced"

\* A call of a stage is the record of its name, the parameter it ran with
\* (0 when it has none) and the raster it returned.
\* Step 1: Downscale
downscaleCall(o, sourceData, size) ==
    IF o.pipeline = "enhanced"
    THEN [stage |-> "downscaleMode", param |-> 0,
          result |-> downscaleMode(sourceData, size.w, size.h)]
    ELSE [stage |-> "downscaleAverage", param |-> 0,
          result |-> downscaleAverage(sourceData, size.w, size.h)]

\* Step 2: Quantize to console palette
quantizeCall(o, consoleConfig, downscaled, c) ==
    IF consoleConfig.quantizeMode = "bitreduce"
    THEN [stage |-> "quantizeBitReduce", param |-> 0,
          result |-> quantizeBitReduce(downscaled)]
    ELSE IF o.pipeline = "enhanced"
         THEN IF o.dithering = "bayer"
              THEN [stage |-> "quantizeOklabBayer", param |-> bayerStrength(o),
                    result |-> quantizeOklabBayer(downscaled,
                                                  consoleConfig.palette,
                                                  bayerStrength(o), c)]
              ELSE [stage |-> "quantizeOklab", param |-> 0,
                    result |-> quantizeOklab(downscaled,
                                             consoleConfig.palette, c)]
         ELSE [stage |-> "quantizePalette", param |-> 0,
               result |-> quantizePalette(downscaled, consoleConfig.palette)]

\* _paletteOklabCache after step 2.
cacheAfterQuantize(o, consoleConfig, c) ==
    IF consoleConfig.quantizeMode # "bitreduce" /\ o.pipeline = "enhanced"
    THEN cacheAfterGet(c, consoleConfig.palette)
    ELSE c

\* Step 3, first half: if (cleanup) pixelData = cleanupOrphans(pixelData)
cleanupCalls(o, raster) ==
    IF postProcessing(o) /\ o.cleanup
    THEN << [stage |-> "cleanupOrphans", param |-> cleanupThreshold(o),
             result |-> cleanupOrphans(raster, cleanupThreshold(o))] >>
    ELSE << >>

\* Step 3, second half: if (outlines) pixelData = generateOutlines(pixelData)
outlineCalls(o, raster) ==
    IF postProcessing(o) /\ o.outlines
    THEN << [stage |-> "generateOutlines", param |-> outlineDarkenFactor(o),
             result |-> generateOutlines(raster, outlineDarkenFactor(o))] >>
    ELSE << >>

\* The raster after the calls (none or one) made on raster.
resultOf(calls, raster) ==
    IF calls = << >> THEN raster ELSE calls[Len(calls)].result

\* What the trace keeps of the calls.
logged(calls) ==
    [k \in 1..Len(calls) |-> [stage |-> calls[k].stage,
                             param |-> calls[k].param]]

\* ------------------------------------------------------ the pipeline's inputs
\* Largest area of an image whose pixels are all drawn freely.
MaxImageArea == 2

\* An opaque gray between two palette grays, an opaque red, and a
\* transparent pixel.
PipePixels == { <<128, 128, 128, 255>>, <<255, 0, 0, 255>>, <<0, 0, 0, 0>> }

\* The known values of each option and one that is not ("pce", "huge",
\* "ordered", "fast"); "null" is dithering = null.
ConsoleIds == {"nes", "snes", "pce"}
SizeKeys == {"", "large", "huge"}
Ditherings == {"null", "bayer", "ordered"}
PipelineIds == {"enhanced", "classic", "fast"}

\* What a caller may put in the options for the strength, the darken factor
\* and the threshold: the stage defaults, or one of them changed.
Tunings ==
    { [ditherStrength |-> DefaultStrength,
       outlineDarkenFactor |-> DefaultDarkenFactor,
       cleanupColorThreshold |-> DefaultThreshold],
      [ditherStrength |-> 2 * DefaultStrength,
       outlineDarkenFactor |-> DefaultDarkenFactor,
       cleanupColorThreshold |-> DefaultThreshold],
      [ditherStrength |-> DefaultStrength,
       outlineDarkenFactor |-> 500,
       cleanupColorThreshold |-> DefaultThreshold],
      [ditherStrength |-> DefaultStrength,
       outlineDarkenFactor |-> DefaultDarkenFactor,
       cleanupColorThreshold |-> 1] }

Options ==
    { [consoleId |-> c, spriteSize |-> k, dithering |-> d, pipeline |-> p,
       outlines |-> ol, cleanup |-> cl,
       ditherStrength |-> u.ditherStrength,
       outlineDarkenFactor |-> u.outlineDarkenFactor,
       cleanupColorThreshold |-> u.cleanupColorThreshold] :
        c \in ConsoleIds, k \in SizeKeys, d \in Ditherings,
        p \in PipelineIds, ol \in BOOLEAN, cl \in BOOLEAN, u \in Tunings }

\* The error-diffusion kernels of the legacy quantizer are not modelled:
\* where quantizePalette is reached, dithering is null.
OptionsOk(o) ==
    (o.consoleId = "nes" /\ o.pipeline # "enhanced") => o.dithering = "null"

\* A pipeline function has been called with the options o on the image img
\* (a holds the frame count of a sprite sheet).  The image's pixels are
\* opaque or fully transparent, so the canvas hands them on as they are.
Called(o, img, a) ==
    /\ pc = "called"
    /\ op = "none"
    /\ src = img
    /\ opts = o
    /\ OptionsOk(o)
    /\ palette = <<>>
    /\ args = a
    /\ out = NoRaster
    /\ cache = EmptyCache
    /\ trace = <<>>
    /\ pixelData = NoRaster
    /\ frames = <<>>
    /\ NoBuffers
    /\ NoApp

\* The three throws at the head of processImage and processSpriteSheet:
\* the message thrown, or "" when the call goes on.
thrownAtEntry(o, img) ==
    IF o.consoleId \notin DOMAIN CONSOLES THEN "Unknown console"
    ELSE IF effectiveSize(o, CONSOLES[o.consoleId])
              \notin DOMAIN CONSOLES[o.consoleId].spriteSizes
         THEN "Unknown sprite size"
         ELSE IF img.width = 0 \/ img.height = 0
              THEN "Image has no dimensions"
              ELSE ""

\* const { w: spriteW, h: spriteH } = size
sizeOf(o) ==
    CONSOLES[o.consoleId].spriteSizes[effectiveSize(o, CONSOLES[o.consoleId])]

\* ---------------------------------------------------- specification SpecPipe
\* processImage, statement by statement.
InitPipe ==
    \E o \in Options :
        \/ Called(o, NoRaster, NoArgs)
        \/ \E s \in Shapes(MaxImageArea) :
            \E d \in [1..(s[1] * s[2]) -> PipePixels] :
                Called(o, Raster(s, d), NoArgs)
        \/ \E bg \in PipePixels :
            \E spots \in SpotSets(<<3, 3>>, 1) :
                \E v \in [spots -> PipePixels \ {bg}] :
                    Called(o, SpotRaster(<<3, 3>>, bg, spots, v), NoArgs)

\* The head of processImage, up to sourceData.
ProcessImageEnter ==
    /\ pc = "called"
    /\ IF thrownAtEntry(opts, src) # ""
       THEN /\ pc' = "thrown"
            /\ op' = thrownAtEntry(opts, src)
            /\ UNCHANGED <<palette, args, pixelData>>
       ELSE /\ pc' = "step1"
            /\ op' = "processImage"
            /\ palette' = CONSOLES[opts.consoleId].palette
            /\ args' = [args EXCEPT !.targetW = sizeOf(opts).w,
                                    !.targetH = sizeOf(opts).h]
            /\ pixelData' = src
    /\ UNCHANGED <<src, out, cache, opts, trace, frames, bufferVars, appVars>>

\* Step 1: Downscale
Step1Downscale ==
    /\ pc = "step1"
    /\ LET call == downscaleCall(opts, pixelData, sizeOf(opts))
       IN  /\ pixelData' = call.result
           /\ trace' = trace \o logged(<<call>>)
    /\ pc' = "step2"
    /\ UNCHANGED <<op, src, palette, args, out, cache, opts, frames,
                   bufferVars, appVars>>

\* Step 2: Quantize to console palette
Step2Quantize ==
    /\ pc = "step2"
    /\ LET call == quantizeCall(opts, CONSOLES[opts.consoleId], pixelData,
                                cache)
       IN  /\ pixelData' = call.result
           /\ trace' = trace \o logged(<<call>>)
    /\ cache' = cacheAfterQuantize(opts, CONSOLES[opts.consoleId], cache)
    /\ pc' = "step3"
    /\ UNCHANGED <<op, src, palette, args, out, opts, frames, bufferVars, appVars>>

\* Step 3: Post-processing, the cleanup
Step3Cleanup ==
    /\ pc = "step3"
    /\ LET calls == cleanupCalls(opts, pixelData)
       IN  /\ pixelData' = resultOf(calls, pixelData)
           /\ trace' = trace \o logged(calls)
    /\ pc' = "step3outlines"
    /\ UNCHANGED <<op, src, palette, args, out, cache, opts, frames,
                   bufferVars, appVars>>

\* Step 3: Post-processing, the outlines; return { pixelData, ... }
Step3OutlinesReturn ==
    /\ pc = "step3outlines"
    /\ LET calls == outlineCalls(opts, pixelData)
       IN  /\ pixelData' = resultOf(calls, pixelData)
           /\ out' = resultOf(calls, pixelData)
           /\ trace' = trace \o logged(calls)
    /\ pc' = "returned"
    /\ UNCHANGED <<op, src, palette, args, cache, opts, frames, bufferVars, appVars>>

NextPipe ==
    \/ ProcessImageEnter
    \/ Step1Downscale
    \/ Step2Quantize
    \/ Step3Cleanup
    \/ Step3OutlinesReturn

SpecPipe == InitPipe /\ [][NextPipe]_vars

\* --------------------------------------------------- specification SpecSheet
\* processSpriteSheet, one loop iteration per step.
\* Widest sprite sheet whose pixels are all drawn freely (its height is 1).
MaxSheetW == 4
\* Largest frame count.
MaxFrames == 3

\* Math.ceil(imgW / frameCount) instead of Math.floor.
frameWidth_roundedUp(imgW, frameCount) ==
    (imgW + frameCount - 1) \div frameCount

\* const frameW = Math.floor(imgW / frameCount)
frameWidth(imgW, frameCount) == imgW \div frameCount

\* frameCtx.drawImage(tmpCanvas, i * frameW, 0, frameW, imgH, 0, 0, frameW,
\* imgH) and getImageData(0, 0, frameW, imgH): the frameW columns of the sheet
\* from column i * frameW on (what lies beyond the sheet stays transparent).
frameRegion(sheet, i, frameW) ==
    [width  |-> frameW,
     height |-> sheet.height,
     data   |-> [j \in 1..(frameW * sheet.height) |->
                    LET x == (i * frameW) + ((j - 1) % frameW)
                        y == (j - 1) \div frameW
                    IN  IF x < sheet.width THEN PixelAt(sheet, x, y)
                        ELSE <<0, 0, 0, 0>>]]

\* The body of the loop for one frame: the calls of steps 1 to 3 on
\* sourceData, in order.
frameCalls(o, sourceData, c) ==
    LET down == downscaleCall(o, sourceData, sizeOf(o))
        quant == quantizeCall(o, CONSOLES[o.consoleId], down.result, c)
        clean == cleanupCalls(o, quant.result)
        lines == outlineCalls(o, resultOf(clean, quant.result))
    IN  <<down, quant>> \o clean \o lines

\* The options of a sprite sheet call: as for processImage, here with the
\* known pipelines and ditherings and the default strength, factor and
\* threshold.
SheetOptions ==
    {o \in Options :
        /\ o.spriteSize # "huge"
        /\ o.dithering # "ordered"
        /\ o.pipeline # "fast"
        /\ o.ditherStrength = DefaultStrength
        /\ o.outlineDarkenFactor = DefaultDarkenFactor
        /\ o.cleanupColorThreshold = DefaultThreshold}

\* The frame count n as the stage arguments of a call.
SheetArgs(n) == [frameCount |-> n] @@ NoArgs

\* Sheets of height 1 with every pixel drawn (processed with outlines,
\* cleanup and the sprite size as by default), and sheets of height 3 of one
\* opaque colour, 9 and 10 wide; the frame count is at most the width, so
\* that a frame has a column.
InitSheet ==
    \E o \in SheetOptions, n \in 1..MaxFrames :
        \/ /\ o.outlines /\ o.cleanup /\ o.spriteSize = ""
           /\ \E w \in n..MaxSheetW :
                \E d \in [1..w -> PipePixels] :
                    Called(o, Raster(<<w, 1>>, d), SheetArgs(n))
        \/ \E w \in {9, 10}, px \in {p \in PipePixels : p[4] = 255} :
            Called(o, Raster(<<w, 3>>, [j \in 1..(w * 3) |-> px]),
                   SheetArgs(n))

\* The head of processSpriteSheet, up to the loop.
ProcessSpriteSheetEnter ==
    /\ pc = "called"
    /\ IF thrownAtEntry(opts, src) # ""
       THEN /\ pc' = "thrown"
            /\ op' = thrownAtEntry(opts, src)
            /\ UNCHANGED <<palette, args>>
       ELSE /\ pc' = "loop"
            /\ op' = "processSpriteSheet"
            /\ palette' = CONSOLES[opts.consoleId].palette
            /\ args' = [args EXCEPT !.targetW = sizeOf(opts).w,
                                    !.targetH = sizeOf(opts).h]
    /\ UNCHANGED <<src, out, cache, opts, trace, pixelData, frames,
                   bufferVars, appVars>>

\* One iteration of for (let i = 0; i < frameCount; i++), with
\* i = frames.length.
ProcessFrame ==
    /\ pc = "loop"
    /\ Len(frames) < args.frameCount
    /\ LET i == Len(frames)
           sourceData == frameRegion(src, i,
                                     frameWidth(src.width, args.frameCount))
           calls == frameCalls(opts, sourceData, cache)
       IN  /\ pixelData' = resultOf(calls, sourceData)
           /\ frames' = Append(frames, [pixelData |-> resultOf(calls, sourceData),
                                        spriteW |-> args.targetW,
                                        spriteH |-> args.targetH])
           /\ trace' = trace \o logged(calls)
    /\ cache' = cacheAfterQuantize(opts, CONSOLES[opts.consoleId], cache)
    /\ UNCHANGED <<pc, op, src, palette, args, out, opts, bufferVars, appVars>>

\* return { frames }
ProcessSpriteSheetReturn ==
    /\ pc = "loop"
    /\ Len(frames) = args.frameCount
    /\ pc' = "returned"
    /\ UNCHANGED <<op, src, palette, args, out, cache, pipelineVars,
                   bufferVars, appVars>>

NextSheet ==
    \/ ProcessSpriteSheetEnter
    \/ ProcessFrame
    \/ ProcessSpriteSheetReturn

SpecSheet == InitSheet /\ [][NextSheet]_vars

\* --------------------------------------------------- specification SpecAlpha
\* processImage on images that have half transparent pixels, for the console
\* with a fixed palette in the enhanced pipeline.
\* Opaque pixels, a half transparent one, one at the cutoff, one just below
\* it, and a fully transparent one.  (Their colour channels are 0 or 255, or
\* they are opaque: the canvas hands such pixels on as they are.)
AlphaPixels ==
    { <<255, 0, 0, 255>>, <<128, 128, 128, 255>>, <<255, 0, 0, 128>>,
      <<255, 0, 0, 10>>, <<255, 0, 0, 9>>, <<0, 0, 0, 0>> }

AlphaOptions ==
    {o \in SheetOptions :
        /\ o.consoleId = "nes"
        /\ o.spriteSize = "large"
        /\ o.pipeline = "enhanced"}

\* Images of the sprite's size that are one pixel value but at one position,
\* or but at the centre and at the first corner.
InitAlpha ==
    \E o \in AlphaOptions, bg \in AlphaPixels :
        \E spots \in SpotSets(<<3, 3>>, 1) \cup {{1, 5}} :
            \E v \in [spots -> AlphaPixels \ {bg}] :
                Called(o, SpotRaster(<<3, 3>>, bg, spots, v), NoArgs)

SpecAlpha == InitAlpha /\ [][NextPipe]_vars

\* --------------------------------------------------- specification SpecCache
\* processImage and processSpriteSheet called one after the other, each call
\* one step.  trace lists the palettes getPaletteOklab has converted
\* (palette.map run), in order.
\* Most conversions a behaviour is followed to.
MaxConversions == 3

\* Does the quantizer of the call reach getPaletteOklab?
usesOklabCache(o, consoleConfig) ==
    consoleConfig.quantizeMode # "bitreduce" /\ o.pipeline = "enhanced"

\* The palettes getPaletteOklab converts during step 2 of one frame.
conversions(o, consoleConfig, c) ==
    IF usesOklabCache(o, consoleConfig) /\ ~cacheHas(c, consoleConfig.palette)
    THEN <<consoleConfig.palette>>
    ELSE << >>

\* The loop of processSpriteSheet from frame i on; st is the frames pushed,
\* the cache and the conversions so far.
RECURSIVE sheetFrom(_, _, _, _, _)
sheetFrom(o, sheet, frameCount, i, st) ==
    IF i >= frameCount THEN st
    ELSE LET sourceData == frameRegion(sheet, i,
                                       frameWidth(sheet.width, frameCount))
             calls == frameCalls(o, sourceData, st.cache)
             cfg == CONSOLES[o.consoleId]
         IN  sheetFrom(o, sheet, frameCount, i + 1,
                 [frames |-> Append(st.frames,
                                 [pixelData |-> resultOf(calls, sourceData),
                                  spriteW |-> sizeOf(o).w,
                                  spriteH |-> sizeOf(o).h]),
                  cache |-> cacheAfterQuantize(o, cfg, st.cache),
                  converted |-> st.converted \o conversions(o, cfg, st.cache)])

\* The state of the loop before its first iteration, with the cache c.
sheetStart(c) == [frames |-> << >>, cache |-> c, converted |-> << >>]

\* Options with a known console, size, pipeline and dithering; no outline or
\* cleanup pass.
CacheOptions ==
    { [o EXCEPT !.consoleId = c] :
        o \in {q \in SheetOptions : /\ q.consoleId = "nes"
                                    /\ OptionsOk(q)
                                    /\ q.spriteSize = ""
                                    /\ ~q.outlines /\ ~q.cleanup},
        c \in DOMAIN CONSOLES }

\* A row of n pixels, gray and red in turn.
GrayRedRow(n) ==
    Raster(<<n, 1>>, [i \in 1..n |-> IF i % 2 = 1 THEN <<128, 128, 128, 255>>
                                     ELSE <<255, 0, 0, 255>>])

CacheImages == { GrayRedRow(2), GrayRedRow(3) }

InitCache ==
    /\ pc = "idle"
    /\ op = "none"
    /\ src = NoRaster
    /\ palette = <<>>
    /\ args = NoArgs
    /\ out = NoRaster
    /\ cache = EmptyCache
    /\ NoPipeline
    /\ NoBuffers
    /\ NoApp

\* processImage(img, o), from its head to its return.
CallProcessImage ==
    /\ Len(trace) < MaxConversions
    /\ \E o \in CacheOptions, img \in CacheImages :
        LET cfg == CONSOLES[o.consoleId]
            calls == frameCalls(o, img, cache)
        IN  /\ src' = img
            /\ opts' = o
            /\ palette' = cfg.palette
            /\ args' = [NoArgs EXCEPT !.targetW = sizeOf(o).w,
                                      !.targetH = sizeOf(o).h]
            /\ pixelData' = resultOf(calls, img)
            /\ out' = resultOf(calls, img)
            /\ cache' = cacheAfterQuantize(o, cfg, cache)
            /\ trace' = trace \o conversions(o, cfg, cache)
    /\ pc' = "returned"
    /\ op' = "processImage"
    /\ frames' = << >>
    /\ UNCHANGED <<bufferVars, appVars>>

\* processSpriteSheet(img, frameCount, o), from its head to its return.
CallProcessSpriteSheet ==
    /\ Len(trace) < MaxConversions
    /\ \E o \in CacheOptions, n \in 1..MaxFrames :
        LET cfg == CONSOLES[o.consoleId]
            sheet == GrayRedRow(2 * MaxFrames)
            end == sheetFrom(o, sheet, n, 0, sheetStart(cache))
        IN  /\ src' = sheet
            /\ opts' = o
            /\ palette' = cfg.palette
            /\ args' = [SheetArgs(n) EXCEPT !.targetW = sizeOf(o).w,
                                            !.targetH = sizeOf(o).h]
            /\ frames' = end.frames
            /\ pixelData' = end.frames[n].pixelData
            /\ cache' = end.cache
            /\ trace' = trace \o end.converted
    /\ pc' = "returned"
    /\ op' = "processSpriteSheet"
    /\ out' = NoRaster
    /\ UNCHANGED <<bufferVars, appVars>>

NextCache == CallProcessImage \/ CallProcessSpriteSheet

SpecCache == InitCache /\ [][NextCache]_vars

\* ------------------------------------------------------------ AnimationPlayer
\* (src/src/animation-player.js).  The player is the record of its fields;
\* frames is the length of this.frames, and _animId is TRUE while an
\* animation-frame callback is scheduled.  Drawing a frame changes no field.

\* Longest frame list handed to setFrames.
MaxPlayerFrames == 3

\* The % of JavaScript: the remainder has the sign of the dividend.
JsRem(a, n) == IF a >= 0 THEN a % n ELSE -((-a) % n)

\* pause(): clears _playing and cancels the scheduled callback.
pause(p) == [p EXCEPT !._playing = FALSE, !._animId = FALSE]

\* _tick(): returns when not playing, else schedules the callback.
_tick(p) == IF ~p._playing THEN p ELSE [p EXCEPT !._animId = TRUE]

\* setFrames(frames), n the number of its non-null entries.
setFrames(p, n) == [p EXCEPT !.frames = n, !._currentFrame = 0, !._direction = 1]

\* play()
play(p) ==
    IF p.frames < 2 THEN p
    ELSE IF p._playing THEN p
    ELSE _tick([p EXCEPT !._playing = TRUE])

\* stop()
stop(p) == [pause(p) EXCEPT !._currentFrame = 0, !._direction = 1]

\* toggle()
toggle(p) == IF p._playing THEN pause(p) ELSE play(p)

\* stepForward()
stepForward(p) ==
    IF p.frames = 0 THEN p
    ELSE [pause(p) EXCEPT
            !._currentFrame = JsRem(p._currentFrame + 1, p.frames)]

\* stepBackward()
stepBackward(p) ==
    IF p.frames = 0 THEN p
    ELSE [pause(p) EXCEPT
            !._currentFrame = JsRem(p._currentFrame - 1 + p.frames, p.frames)]

\* _advance()
_advance(p) ==
    LET total == p.frames
        next == p._currentFrame + p._direction
        wrapped == JsRem(p._currentFrame + 1, total)
    IN  IF total = 0 THEN p
        ELSE IF p.pingPong
        THEN IF next >= total
             THEN [p EXCEPT !._direction = -1, !._currentFrame = total - 2]
             ELSE IF next < 0
             THEN [p EXCEPT !._direction = 1, !._currentFrame = 1]
             ELSE [p EXCEPT !._currentFrame = next]
        ELSE IF ~p.loop /\ wrapped = 0
             THEN [pause(p) EXCEPT !._currentFrame = total - 1]
             ELSE [p EXCEPT !._currentFrame = wrapped]

\* The callback _tick() handed to requestAnimationFrame: it advances when
\* the frame interval has elapsed (due) and calls _tick() again.
animationFrame(p, due) ==
    LET fired == [p EXCEPT !._animId = FALSE]
    IN  _tick(IF due THEN _advance(fired) ELSE fired)

\* Everything but the player.
besidesPlayer == <<pc, op, src, palette, args, out, cache, pipelineVars,
                   bufferVars, uiVars>>

SetFrames ==
    \E n \in 0..MaxPlayerFrames :
        /\ player' = setFrames(player, n)
        /\ UNCHANGED besidesPlayer

\* play() returns at once with fewer than two frames or when playing.
Play ==
    /\ player.frames >= 2
    /\ ~player._playing
    /\ player' = play(player)
    /\ UNCHANGED besidesPlayer

Pause ==
    /\ player' = pause(player)
    /\ UNCHANGED besidesPlayer

Stop ==
    /\ player' = stop(player)
    /\ UNCHANGED besidesPlayer

Toggle ==
    /\ player' = toggle(player)
    /\ UNCHANGED besidesPlayer

\* stepForward() and stepBackward() return at once without frames.
StepForward ==
    /\ player.frames > 0
    /\ player' = stepForward(player)
    /\ UNCHANGED besidesPlayer

StepBackward ==
    /\ player.frames > 0
    /\ player' = stepBackward(player)
    /\ UNCHANGED besidesPlayer

\* this.loop is a public field.
SetLoop ==
    \E b \in BOOLEAN :
        /\ player' = [player EXCEPT !.loop = b]
        /\ UNCHANGED besidesPlayer

\* player.pingPong = pingPongCheckbox.checked
SetPingPong ==
    \E b \in BOOLEAN :
        /\ player' = [player EXCEPT !.pingPong = b]
        /\ UNCHANGED besidesPlayer

\* The browser runs the scheduled callback.
Tick ==
    /\ player._animId
    /\ \E due \in BOOLEAN :
        /\ player' = animationFrame(player, due)
        /\ UNCHANGED besidesPlayer

InitPlayer ==
    /\ pc = "page"
    /\ op = "none"
    /\ src = NoRaster
    /\ palette = <<>>
    /\ args = NoArgs
    /\ out = NoRaster
    /\ cache = EmptyCache
    /\ NoPipeline
    /\ NoBuffers
    /\ NoApp

NextPlayer ==
    \/ SetFrames
    \/ Play
    \/ Pause
    \/ Stop
    \/ Toggle
    \/ StepForward
    \/ StepBackward
    \/ SetLoop
    \/ SetPingPong
    \/ Tick

SpecPlayer == InitPlayer /\ [][NextPlayer]_vars

\* ------------------------------------------------------------ the page's handlers
\* (src/src/main.js).  handleGenerate is an async function: between its
\* awaits other handlers run.  An invocation is the record of the slot that
\* was selected when it started, of the await it has reached (at) and of
\* whether handleGenerateAllFrames awaits it (batch):
\*   "image"   awaiting generateImage
\*   "load"    awaiting the load event of sourceImage
\*   "stalled" awaiting a load event that cannot come, a later invocation
\*             having replaced sourceImage.onload, onerror and src
\*   "delay"   awaiting the 50 ms timer
\*   "done", "failed"  returned, through the try block or the catch block.
\* The sprite an invocation stores is named by the invocation's number; the
\* slot of an invocation (a local of the call) is gone once it has returned.
\* The prompt is taken to be non-empty (with an empty one both handlers
\* return before they change anything).  handleGenerateSheet and the load
\* and save handlers are left out.

\* Most handleGenerate invocations started in one behaviour.
MaxInvocations == 2

Min(a, b) == IF a < b THEN a ELSE b
Max(a, b) == IF a > b THEN a ELSE b

\* getFrameKey()
getFrameKey == <<animStateSelect.value, viewSelect.value>>

\* getFrameCount()
getFrameCount == ANIMATION_STATES[animStateSelect.value].frameCount

\* The locals of an invocation that has returned.
NoSlot == [state |-> "", view |-> "", frame |-> 0]

\* The slot (animation state, view, frame index) that is selected.
selectedSlot(frame) ==
    [state |-> animStateSelect.value, view |-> viewSelect.value,
     frame |-> frame]

\* updateFrameUI(): currentFrame clamped to the frames of state stateId.
clampedFrame(frame, stateId) ==
    Max(0, Min(frame, ANIMATION_STATES[stateId].frameCount - 1))

\* frames.filter(f => f !== null).length in syncPlayerFrames()
filledCount(store, key) ==
    Cardinality({i \in DOMAIN store[key] : store[key][i] # null})

\* syncPlayerFrames()
syncPlayerFrames(store, key) == setFrames(player, filledCount(store, key))

InProgress(n) == invocations[n].at \in {"image", "load", "stalled", "delay"}

\* Invocations handleGenerateAllFrames has still to start.
Reserved == IF batch.running THEN batch.total - batch.i - 1 ELSE 0

\* The part of handleGenerate before its first await: setGenerating(true),
\* the pose built from the selection, the request sent.
startedInvocation(frame, ofBatch) ==
    [slot |-> selectedSlot(frame), at |-> "image", batch |-> ofBatch]

\* frames[currentFrame] = { ... } with frames = getCurrentFrames(), both
\* read when the statement runs.
storeFrame(store, n) == [store EXCEPT ![getFrameKey][currentFrame + 1] = n]

\* Everything but the page.
besidesPage == <<pc, op, src, palette, args, out, cache, pipelineVars,
                 bufferVars>>

\* generateBtn click -> handleGenerate; a disabled button takes no click.
ClickGenerate ==
    /\ ~generateBtn.disabled
    /\ Len(invocations) + Reserved < MaxInvocations
    /\ generateBtn' = [disabled |-> TRUE]
    /\ invocations' = Append(invocations, startedInvocation(currentFrame, FALSE))
    /\ UNCHANGED <<genAllFramesBtn, animStateSelect, viewSelect, currentFrame,
                   frameStore, batch, player, besidesPage>>

\* inputField keypress Enter -> handleGenerate()
PressEnter ==
    /\ Len(invocations) + Reserved < MaxInvocations
    /\ generateBtn' = [disabled |-> TRUE]
    /\ invocations' = Append(invocations, startedInvocation(currentFrame, FALSE))
    /\ UNCHANGED <<genAllFramesBtn, animStateSelect, viewSelect, currentFrame,
                   frameStore, batch, player, besidesPage>>

\* genAllFramesBtn click -> handleGenerateAllFrames, up to the await of its
\* first handleGenerate().
ClickGenerateAllFrames ==
    /\ ~genAllFramesBtn.disabled
    /\ Len(invocations) + getFrameCount <= MaxInvocations
    /\ generateBtn' = [disabled |-> TRUE]
    /\ genAllFramesBtn' = [disabled |-> TRUE]
    /\ currentFrame' = 0
    /\ invocations' = Append(invocations, startedInvocation(0, TRUE))
    /\ batch' = [running |-> TRUE, i |-> 0, total |-> getFrameCount]
    /\ UNCHANGED <<animStateSelect, viewSelect, frameStore, player,
                   besidesPage>>

\* animStateSelect change
ChangeAnimState ==
    \E s \in DOMAIN ANIMATION_STATES :
        /\ s # animStateSelect.value
        /\ animStateSelect' = [value |-> s]
        /\ currentFrame' = 0
        /\ UNCHANGED <<generateBtn, genAllFramesBtn, viewSelect, frameStore,
                       invocations, batch, player, besidesPage>>

\* viewSelect change
ChangeView ==
    \E v \in VIEWS :
        /\ v # viewSelect.value
        /\ viewSelect' = [value |-> v]
        /\ currentFrame' = 0
        /\ UNCHANGED <<generateBtn, genAllFramesBtn, animStateSelect,
                       frameStore, invocations, batch, player, besidesPage>>

\* framePrevBtn click
ClickFramePrev ==
    /\ currentFrame > 0
    /\ currentFrame' = clampedFrame(currentFrame - 1, animStateSelect.value)
    /\ UNCHANGED <<generateBtn, genAllFramesBtn, animStateSelect, viewSelect,
                   frameStore, invocations, batch, player, besidesPage>>

\* frameNextBtn click
ClickFrameNext ==
    /\ currentFrame < getFrameCount - 1
    /\ currentFrame' = clampedFrame(currentFrame + 1, animStateSelect.value)
    /\ UNCHANGED <<generateBtn, genAllFramesBtn, animStateSelect, viewSelect,
                   frameStore, invocations, batch, player, besidesPage>>

\* click on thumbnail i of the frame strip
ClickThumb ==
    \E i \in 0..(getFrameCount - 1) :
        /\ i # currentFrame
        /\ currentFrame' = clampedFrame(i, animStateSelect.value)
        /\ UNCHANGED <<generateBtn, genAllFramesBtn, animStateSelect,
                       viewSelect, frameStore, invocations, batch, player,
                       besidesPage>>

\* generateImage resolves for invocation n, which goes on to hand its image
\* to sourceImage and to await the load event.  An invocation that was
\* awaiting the load event loses its handlers.
ImageGenerated ==
    \E n \in DOMAIN invocations :
        /\ invocations[n].at = "image"
        /\ invocations' =
              [m \in DOMAIN invocations |->
                 IF m = n THEN [invocations[m] EXCEPT !.at = "load"]
                 ELSE IF invocations[m].at = "load"
                 THEN [invocations[m] EXCEPT !.at = "stalled"]
                 ELSE invocations[m]]
        /\ UNCHANGED <<generateBtn, genAllFramesBtn, animStateSelect,
                       viewSelect, currentFrame, frameStore, batch, player,
                       besidesPage>>

\* sourceImage fires load: invocation n goes on to the 50 ms delay.
ImageLoaded ==
    \E n \in DOMAIN invocations :
        /\ invocations[n].at = "load"
        /\ invocations' = [invocations EXCEPT ![n].at = "delay"]
        /\ UNCHANGED <<generateBtn, genAllFramesBtn, animStateSelect,
                       viewSelect, currentFrame, frameStore, batch, player,
                       besidesPage>>

\* handleGenerate of invocation n from its last await (ok) or from the
\* rejection of an await (~ok) to its return: the frame stored and the
\* player synchronised (ok), or the catch block; the finally block; and,
\* when handleGenerateAllFrames awaits the invocation, the loop of
\* handleGenerateAllFrames up to its next await or its return.
Returns(n, ok) ==
    LET key == getFrameKey
        stored == IF ok THEN storeFrame(frameStore, n) ELSE frameStore
        synced == IF ok THEN syncPlayerFrames(stored, key) ELSE player
        settled == [invocations EXCEPT
                       ![n].at = IF ok THEN "done" ELSE "failed",
                       ![n].slot = NoSlot]
        nextFrame == clampedFrame(batch.i + 1, animStateSelect.value)
    IN  /\ frameStore' = stored
        /\ IF ~invocations[n].batch
           THEN /\ invocations' = settled
                /\ generateBtn' = [disabled |-> FALSE]
                /\ player' = synced
                /\ UNCHANGED <<genAllFramesBtn, currentFrame, batch>>
           ELSE IF batch.i + 1 < batch.total
           THEN /\ currentFrame' = nextFrame
                /\ invocations' =
                      Append(settled, startedInvocation(nextFrame, TRUE))
                /\ generateBtn' = [disabled |-> TRUE]
                /\ batch' = [batch EXCEPT !.i = batch.i + 1]
                /\ player' = synced
                /\ UNCHANGED genAllFramesBtn
           ELSE /\ currentFrame' = 0
                /\ invocations' = settled
                /\ generateBtn' = [disabled |-> FALSE]
                /\ genAllFramesBtn' = [disabled |-> FALSE]
                /\ batch' = NoBatch
                /\ player' = setFrames(player, filledCount(stored, key))
        /\ UNCHANGED <<animStateSelect, viewSelect, besidesPage>>

\* The 50 ms timer fires: processImage, the frame stored, the return.
DelayElapsed ==
    \E n \in DOMAIN invocations :
        /\ invocations[n].at = "delay"
        /\ Returns(n, TRUE)

\* generateImage rejects.
ImageRejected ==
    \E n \in DOMAIN invocations :
        /\ invocations[n].at = "image"
        /\ Returns(n, FALSE)

\* sourceImage fires error.
LoadFailed ==
    \E n \in DOMAIN invocations :
        /\ invocations[n].at = "load"
        /\ Returns(n, FALSE)

InitUI ==
    /\ pc = "page"
    /\ op = "none"
    /\ src = NoRaster
    /\ palette = <<>>
    /\ args = NoArgs
    /\ out = NoRaster
    /\ cache = EmptyCache
    /\ NoPipeline
    /\ NoBuffers
    /\ NoApp

NextUI ==
    \/ ClickGenerate
    \/ PressEnter
    \/ ClickGenerateAllFrames
    \/ ChangeAnimState
    \/ ChangeView
    \/ ClickFramePrev
    \/ ClickFrameNext
    \/ ClickThumb
    \/ ImageGenerated
    \/ ImageLoaded
    \/ DelayElapsed
    \/ ImageRejected
    \/ LoadFailed

SpecUI == InitUI /\ [][NextUI]_vars

\* ------------------------------------------------------ properties of SpecQuant
OklabOps == {"quantizeOklab", "quantizeOklabBayer"}

\* C1: after quantizeOklab or quantizeOklabBayer with a palette of length
\* >= 1, the output has the input's width and height, and every pixel whose
\* input alpha is >= 10 has the RGB of one palette entry and the input's alpha.
C1_PaletteClosure ==
    (pc = "done" /\ op \in OklabOps) =>
        /\ out.width = src.width
        /\ out.height = src.height
        /\ Len(out.data) = Len(src.data)
        /\ \A i \in 1..Len(src.data) :
            src.data[i][4] >= AlphaCutoff =>
                /\ \E j \in 1..Len(palette) : RGBOf(out.data[i]) = palette[j]
                /\ out.data[i][4] = src.data[i][4]

\* A quantization that moved an opaque-enough pixel onto a palette colour
\* other than its own, with a palette of several entries.
C1_Witness ==
    /\ pc = "done" /\ op \in OklabOps
    /\ Len(palette) >= 2
    /\ \E i \in 1..Len(src.data) :
        /\ src.data[i][4] >= AlphaCutoff
        /\ RGBOf(out.data[i]) # RGBOf(src.data[i])
        /\ \E j \in 1..Len(palette) : RGBOf(out.data[i]) = palette[j]

AllQuantOps == OklabOps \cup {"quantizeBitReduce"}

\* C2: for every quantization strategy, an input pixel with alpha < 10
\* yields alpha 0 and RGB (0,0,0), and an input pixel with alpha >= 10 yields
\* a non-transparent pixel, so the number of transparent pixels is preserved.
C2_TransparencyShortCircuit ==
    (pc = "done" /\ op \in AllQuantOps) =>
        /\ \A i \in 1..Len(src.data) :
            /\ src.data[i][4] < AlphaCutoff => out.data[i] = <<0, 0, 0, 0>>
            /\ src.data[i][4] >= AlphaCutoff => out.data[i][4] >= AlphaCutoff
        /\ Cardinality({i \in 1..Len(out.data) : out.data[i][4] < AlphaCutoff})
             = Cardinality({i \in 1..Len(src.data) : src.data[i][4] < AlphaCutoff})

\* The OKLAB value the nearest search of the applied stage compares for the
\* pixel at position i (from 1) of the input.
SearchedLab(i) ==
    LET px == src.data[i]
        lab == srgbToOklab(px[1], px[2], px[3])
        x == (i - 1) % src.width
        y == (i - 1) \div src.width
    IN  IF op = "quantizeOklabBayer"
        THEN <<lab[1] + bayerThreshold(x, y, args.strength), lab[2], lab[3]>>
        ELSE lab

\* The palette indices (from 0) at the least squared distance from lab.
Minimisers(lab) ==
    {j \in 0..(Len(palette) - 1) :
        \A m \in 0..(Len(palette) - 1) :
            oklabDistSq(lab, paletteToOklab(palette)[j + 1])
                <= oklabDistSq(lab, paletteToOklab(palette)[m + 1])}

\* C3: the index the nearest search chooses for a pixel minimises the squared
\* OKLAB distance over all palette entries and is the lowest index among the
\* entries at that least distance; the output pixel is that entry.
C3_NearestLowestIndex ==
    (pc = "done" /\ op \in OklabOps) =>
        \A i \in 1..Len(src.data) :
            src.data[i][4] >= AlphaCutoff =>
                LET chosen == nearestIndex(SearchedLab(i), paletteToOklab(palette))
                IN  /\ chosen \in Minimisers(SearchedLab(i))
                    /\ \A j \in Minimisers(SearchedLab(i)) : chosen <= j
                    /\ RGBOf(out.data[i]) = palette[chosen + 1]

\* A pixel with two palette entries exactly equidistant and nearest, neither
\* of them the first entry of the palette.
C3_Witness ==
    /\ pc = "done" /\ op \in OklabOps
    /\ \E i \in 1..Len(src.data) :
        /\ src.data[i][4] >= AlphaCutoff
        /\ Cardinality(Minimisers(SearchedLab(i))) >= 2
        /\ 0 \notin Minimisers(SearchedLab(i))
        /\ RGBOf(out.data[i]) # palette[1]

\* The matrix of the ordered dither: its entries are K[r][c]/16 - 1/2.
BayerK == << <<0, 8, 2, 10>>, <<12, 4, 14, 6>>,
             <<3, 11, 1, 9>>, <<15, 7, 13, 5>> >>

\* Column and row of the pixel at position i (from 1) of the input.
ColOf(i) == (i - 1) % src.width
RowOf(i) == (i - 1) \div src.width

\* The pixel's OKLAB value with (K[y mod 4][x mod 4]/16 - 1/2) * strength
\* added to L (in units of 1/16000: (K - 8) * strength), a and b as they are.
OffsetLab(i) ==
    LET px == src.data[i]
        lab == srgbToOklab(px[1], px[2], px[3])
        k == BayerK[(RowOf(i) % 4) + 1][(ColOf(i) % 4) + 1]
    IN  <<lab[1] + (k - 8) * args.strength, lab[2], lab[3]>>

\* C22: quantizeOklabBayer is the plain nearest search on the pixel's OKLAB
\* value with L offset by (K[y mod 4][x mod 4]/16 - 1/2) * strength, a and b
\* unchanged, where K holds each of 0..15 once; so two pixels with the same
\* RGBA at coordinates congruent modulo 4 get the same output colour.
C22_BayerOffsetsLightnessOnly ==
    (pc = "done" /\ op = "quantizeOklabBayer") =>
        /\ bayer4 = BayerK
        /\ \A k \in 0..15 :
            Cardinality({rc \in (1..4) \X (1..4) :
                            BayerK[rc[1]][rc[2]] = k}) = 1
        /\ \A i \in 1..Len(src.data) :
            src.data[i][4] >= AlphaCutoff =>
                /\ out.data[i][4] = src.data[i][4]
                /\ \E j \in Minimisers(OffsetLab(i)) :
                    /\ \A m \in Minimisers(OffsetLab(i)) : j <= m
                    /\ RGBOf(out.data[i]) = palette[j + 1]
        /\ \A i, j \in 1..Len(src.data) :
            (/\ src.data[i] = src.data[j]
             /\ ColOf(i) % 4 = ColOf(j) % 4
             /\ RowOf(i) % 4 = RowOf(j) % 4) => out.data[i] = out.data[j]

\* A dithered strip whose two ends, four pixels apart and equal, got the
\* same palette colour while an equal pixel between them got another one.
C22_Witness ==
    /\ pc = "done" /\ op = "quantizeOklabBayer"
    /\ args.strength > 0
    /\ Len(src.data) = BayerSize + 1
    /\ src.data[1][4] >= AlphaCutoff
    /\ src.data[1] = src.data[BayerSize + 1]
    /\ out.data[1] = out.data[BayerSize + 1]
    /\ \E i \in 2..BayerSize :
        /\ src.data[i] = src.data[1]
        /\ out.data[i] # out.data[1]

\* C26: quantizeOklabBayer with strength 0 returns the raster quantizeOklab
\* returns for the same image and palette.
C26_ZeroStrengthIsPlain ==
    (pc = "done" /\ op = "quantizeOklabBayer" /\ args.strength = 0) =>
        out = quantizeOklab(src, palette, EmptyCache)

\* A Bayer quantization with strength 0 of an image that the default
\* strength would have dithered: some pixel would have got another colour.
C26_Witness ==
    /\ pc = "done" /\ op = "quantizeOklabBayer" /\ args.strength = 0
    /\ \E i \in 1..Len(src.data) :
        /\ src.data[i][4] >= AlphaCutoff
        /\ out.data[i] # bayerPixel(src.data[i], ColOf(i), RowOf(i), palette,
                                    paletteToOklab(palette), DefaultStrength)

\* ------------------------------------------------------- properties of SpecDown
DownOps == {"downscaleMode", "downscaleAverage"}

\* The output cells, as <<x, y>> from 0.
OutCells == (0..(out.width - 1)) \X (0..(out.height - 1))

\* The region of the input that the applied downscale reads for cell c.
RegionOfCell(c) == regionOf(src, args.targetW, args.targetH, c[1], c[2])

Opaque(img) == \A i \in 1..Len(img.data) : img.data[i][4] >= AlphaCutoff

\* C4: mode downscale of an alpha-opaque raster to its own width and height
\* returns a raster identical to the input.
C4_ModeIdentity ==
    (pc = "done" /\ op = "downscaleMode" /\ Opaque(src)
        /\ args.targetW = src.width /\ args.targetH = src.height) =>
        /\ out.width = src.width
        /\ out.height = src.height
        /\ Len(out.data) = Len(src.data)
        /\ \A i \in 1..Len(src.data) : out.data[i] = src.data[i]

\* A mode downscale of an opaque 2x2 raster of several colours to 2x2.
C4_Witness ==
    /\ pc = "done" /\ op = "downscaleMode" /\ Opaque(src)
    /\ src.width = 2 /\ src.height = 2
    /\ args.targetW = 2 /\ args.targetH = 2
    /\ Cardinality({src.data[i] : i \in 1..4}) >= 3
    /\ out.data[4] = src.data[4]

\* The bin of a pixel: each channel right-shifted by 3.
Bin5(px) == <<px[1] \div 8, px[2] \div 8, px[3] \div 8, px[4] \div 8>>

\* The number of pixels of the first k pixels of a region that lie in bin.
CountIn(region, bin, k) ==
    Cardinality({j \in 1..k : Bin5(region[j]) = bin})

BinsOf(region) == {Bin5(region[j]) : j \in 1..Len(region)}

\* The highest pixel count of a bin of the region.
MaxCount(region) ==
    CHOOSE m \in 0..Len(region) :
        /\ \A b \in BinsOf(region) : CountIn(region, b, Len(region)) <= m
        /\ \E b \in BinsOf(region) : CountIn(region, b, Len(region)) = m

\* C5: in mode downscale, for every output cell with a non-empty region the
\* output pixel lies in a bin whose count is maximal among the bins of the
\* region, and is the exact value of one source pixel of the region.
C5_ModeMaximalBin ==
    (pc = "done" /\ op = "downscaleMode") =>
        \A c \in OutCells :
            LET region == RegionOfCell(c)
                px == PixelAt(out, c[1], c[2])
            IN  Len(region) > 0 =>
                    /\ \E j \in 1..Len(region) : region[j] = px
                    /\ CountIn(region, Bin5(px), Len(region)) = MaxCount(region)

\* A cell of three or more pixels whose first pixel is alone in its bin and
\* whose winning bin holds two different colours.
C5_Witness ==
    /\ pc = "done" /\ op = "downscaleMode"
    /\ \E c \in OutCells :
        LET region == RegionOfCell(c)
            px == PixelAt(out, c[1], c[2])
        IN  /\ Len(region) >= 3
            /\ CountIn(region, Bin5(region[1]), Len(region)) = 1
            /\ CountIn(region, Bin5(px), Len(region)) >= 2
            /\ \E j \in 1..Len(region) :
                Bin5(region[j]) = Bin5(px) /\ region[j] # px

\* The bins of the region that hold the highest count.
TiedBins(region) ==
    {b \in BinsOf(region) : CountIn(region, b, Len(region)) = MaxCount(region)}

\* The position of the first pixel of a bin in the scan of the region.
FirstPos(region, bin) ==
    CHOOSE j \in 1..Len(region) :
        /\ Bin5(region[j]) = bin
        /\ \A i \in 1..(j - 1) : Bin5(region[i]) # bin

\* C6 as stated: when two or more bins tie for the highest count, the output
\* comes from the tied bin whose first pixel is encountered earliest in the
\* row-major scan of the region.
C6_TieFirstEncountered ==
    (pc = "done" /\ op = "downscaleMode") =>
        \A c \in OutCells :
            LET region == RegionOfCell(c)
                px == PixelAt(out, c[1], c[2])
            IN  Cardinality(TiedBins(region)) >= 2 =>
                    /\ Bin5(px) \in TiedBins(region)
                    /\ \A b \in TiedBins(region) :
                        FirstPos(region, Bin5(px)) <= FirstPos(region, b)

\* The position in the scan at which a bin first holds the highest count.
FirstFull(region) ==
    CHOOSE k \in 1..Len(region) :
        /\ CountIn(region, Bin5(region[k]), k) = MaxCount(region)
        /\ \A i \in 1..(k - 1) :
            CountIn(region, Bin5(region[i]), i) < MaxCount(region)

\* C6 amended: when two or more bins tie for the highest count, the output
\* is the pixel at which a bin first reaches that count in the row-major
\* scan: it comes from the tied bin that is completed earliest.
C6_TieFirstCompleted ==
    (pc = "done" /\ op = "downscaleMode") =>
        \A c \in OutCells :
            LET region == RegionOfCell(c)
                px == PixelAt(out, c[1], c[2])
            IN  Cardinality(TiedBins(region)) >= 2 =>
                    px = region[FirstFull(region)]

\* A cell whose two bins tie at two pixels each, the bin met first being
\* completed last: the output comes from the other bin.
C6_Witness ==
    /\ pc = "done" /\ op = "downscaleMode"
    /\ \E c \in OutCells :
        LET region == RegionOfCell(c)
            px == PixelAt(out, c[1], c[2])
        IN  /\ Cardinality(TiedBins(region)) >= 2
            /\ MaxCount(region) >= 2
            /\ Bin5(px) # Bin5(region[1])
            /\ Bin5(region[1]) \in TiedBins(region)

\* floor(i * srcN / targetN)
NearestCoord(i, srcN, targetN) == (i * srcN) \div targetN

\* C7: when targetW > source width or targetH > source height, every
\* output pixel (x, y) of either downscale equals the source pixel at
\* (floor(x * srcW / targetW), floor(y * srcH / targetH)).
C7_UpscaleNearestPixel ==
    (pc = "done" /\ op \in DownOps
        /\ (args.targetW > src.width \/ args.targetH > src.height)) =>
        \A c \in OutCells :
            PixelAt(out, c[1], c[2])
                = PixelAt(src, NearestCoord(c[1], src.width, args.targetW),
                               NearestCoord(c[2], src.height, args.targetH))

RECURSIVE SumOf(_, _, _)
SumOf(region, ch, k) ==
    IF k = 0 THEN 0 ELSE SumOf(region, ch, k - 1) + region[k][ch]

SpanOf(i, srcN, targetN) ==
    cellStart(i, srcN, targetN)..(cellStart(i + 1, srcN, targetN) - 1)

\* C25: for 1 <= targetW <= srcW and 1 <= targetH <= srcH the source regions
\* of the output cells begin at floor(x * srcW / targetW) and
\* floor(y * srcH / targetH), are all non-empty and pairwise disjoint, and
\* every source pixel lies in exactly one of them.
C25_RegionsPartitionSource ==
    (/\ pc = "done" /\ op \in DownOps
     /\ args.targetW <= src.width /\ args.targetH <= src.height) =>
        /\ \A x \in 0..args.targetW :
            cellStart(x, src.width, args.targetW)
                = (x * src.width) \div args.targetW
        /\ \A y \in 0..args.targetH :
            cellStart(y, src.height, args.targetH)
                = (y * src.height) \div args.targetH
        /\ \A c \in OutCells : Len(RegionOfCell(c)) > 0
        /\ \A sx \in 0..(src.width - 1) :
            Cardinality({x \in 0..(args.targetW - 1) :
                sx \in SpanOf(x, src.width, args.targetW)}) = 1
        /\ \A sy \in 0..(src.height - 1) :
            Cardinality({y \in 0..(args.targetH - 1) :
                sy \in SpanOf(y, src.height, args.targetH)}) = 1

\* ------------------------------------------------------- properties of SpecPost
\* The cells of the input, as <<x, y>> from 0.
SrcCells == (0..(src.width - 1)) \X (0..(src.height - 1))

InRaster(c) ==
    /\ 0 <= c[1] /\ c[1] < src.width
    /\ 0 <= c[2] /\ c[2] < src.height

OnBoundary(c) ==
    \/ c[1] = 0 \/ c[1] = src.width - 1
    \/ c[2] = 0 \/ c[2] = src.height - 1

\* A 4-neighbour of c inside the raster has alpha < 10.
TransparentNeighbour4(c) ==
    \E n \in {<<c[1] - 1, c[2]>>, <<c[1] + 1, c[2]>>,
              <<c[1], c[2] - 1>>, <<c[1], c[2] + 1>>} :
        InRaster(n) /\ PixelAt(src, n[1], n[2])[4] < AlphaCutoff

\* The pixels generateOutlines is to darken.
OutlinePixel(c) ==
    /\ PixelAt(src, c[1], c[2])[4] >= AlphaCutoff
    /\ (OnBoundary(c) \/ TransparentNeighbour4(c))

\* v is w * (1 - f/1000) rounded to the nearest integer, halves upwards.
IsRoundedProduct(v, w, f) ==
    /\ 2 * w * (1000 - f) - 1000 < 2000 * v
    /\ 2000 * v <= 2 * w * (1000 - f) + 1000

\* C9: generateOutlines rewrites a pixel exactly when its alpha is >= 10 and
\* it lies on the raster boundary or has a 4-neighbour with alpha < 10; each
\* RGB channel of such a pixel becomes round(channel * (1 - darkenFactor)),
\* which is <= the original value; every other pixel and every alpha are
\* those of the input.
C9_OutlineDarkening ==
    (pc = "done" /\ op = "generateOutlines") =>
        /\ out.width = src.width
        /\ out.height = src.height
        /\ Len(out.data) = Len(src.data)
        /\ \A c \in SrcCells :
            LET px == PixelAt(src, c[1], c[2])
                res == PixelAt(out, c[1], c[2])
            IN  /\ res[4] = px[4]
                /\ OutlinePixel(c) =>
                    \A ch \in 1..3 :
                        /\ IsRoundedProduct(res[ch], px[ch], args.darkenFactor)
                        /\ res[ch] <= px[ch]
                /\ ~OutlinePixel(c) => res = px

\* An opaque pixel off the boundary, darkened because a 4-neighbour is
\* transparent, with a channel rounded upwards; and an opaque pixel off the
\* boundary with no transparent 4-neighbour, left as it was.
C9_Witness ==
    /\ pc = "done" /\ op = "generateOutlines"
    /\ \E c \in SrcCells :
        /\ ~OnBoundary(c)
        /\ OutlinePixel(c)
        /\ \E ch \in 1..3 :
            /\ PixelAt(out, c[1], c[2])[ch] < PixelAt(src, c[1], c[2])[ch]
            /\ 1000 * PixelAt(out, c[1], c[2])[ch]
                 > PixelAt(src, c[1], c[2])[ch] * (1000 - args.darkenFactor)
    /\ \E c \in SrcCells :
        /\ ~OnBoundary(c)
        /\ PixelAt(src, c[1], c[2])[4] >= AlphaCutoff
        /\ ~OutlinePixel(c)
        /\ PixelAt(out, c[1], c[2]) = PixelAt(src, c[1], c[2])

\* |dR| + |dG| + |dB| between two pixels.
DiffSum(p, q) == Abs(p[1] - q[1]) + Abs(p[2] - q[2]) + Abs(p[3] - q[3])

\* Some 8-neighbour of the interior cell c is within the threshold of it.
MatchingNeighbour(c) ==
    \E d \in ((-1..1) \X (-1..1)) \ {<<0, 0>>} :
        DiffSum(PixelAt(src, c[1] + d[1], c[2] + d[2]), PixelAt(src, c[1], c[2]))
            < 3 * args.threshold

\* C10: cleanupOrphans rewrites the RGB of a pixel only if the pixel is
\* interior, has alpha >= 10 and has no 8-neighbour with
\* |dR|+|dG|+|dB| < 3 * threshold; every other pixel is that of the input,
\* every alpha is unchanged, and a raster narrower or lower than 3 is
\* returned unchanged.
C10_CleanupFrame ==
    (pc = "done" /\ op = "cleanupOrphans") =>
        /\ out.width = src.width
        /\ out.height = src.height
        /\ Len(out.data) = Len(src.data)
        /\ \A c \in SrcCells :
            LET px == PixelAt(src, c[1], c[2])
                res == PixelAt(out, c[1], c[2])
            IN  /\ res[4] = px[4]
                /\ res # px =>
                    /\ ~OnBoundary(c)
                    /\ px[4] >= AlphaCutoff
                    /\ ~MatchingNeighbour(c)
        /\ (src.width < 3 \/ src.height < 3) =>
            \A i \in 1..Len(src.data) : out.data[i] = src.data[i]

\* A raster with two interior pixels: one an orphan whose colour was
\* replaced, the other opaque with a neighbour close to it but not equal,
\* left as it was.
C10_Witness ==
    /\ pc = "done" /\ op = "cleanupOrphans"
    /\ \E c \in SrcCells :
        /\ ~OnBoundary(c)
        /\ RGBOf(PixelAt(out, c[1], c[2])) # RGBOf(PixelAt(src, c[1], c[2]))
    /\ \E c \in SrcCells :
        /\ ~OnBoundary(c)
        /\ PixelAt(src, c[1], c[2])[4] >= AlphaCutoff
        /\ MatchingNeighbour(c)
        /\ \A d \in ((-1..1) \X (-1..1)) \ {<<0, 0>>} :
            RGBOf(PixelAt(src, c[1] + d[1], c[2] + d[2]))
                # RGBOf(PixelAt(src, c[1], c[2]))
        /\ PixelAt(out, c[1], c[2]) = PixelAt(src, c[1], c[2])

\* The 3x3 raster of the input around the interior cell c.
Window(c) ==
    Raster(<<3, 3>>,
           [k \in 1..9 |-> PixelAt(src, c[1] - 1 + ((k - 1) % 3),
                                   c[2] - 1 + ((k - 1) \div 3))])

\* C24: each output pixel of cleanupOrphans is a function of the 3x3
\* neighbourhood of that pixel in the input raster, as it was handed in: what
\* the pass has already rewritten has no part in it, so the order in which
\* the pixels are visited does not matter.
C24_PixelFromInputWindow ==
    (pc = "done" /\ op = "cleanupOrphans") =>
        \A c \in SrcCells :
            PixelAt(out, c[1], c[2])
                = IF OnBoundary(c) THEN PixelAt(src, c[1], c[2])
                  ELSE cleanupPixel(Window(c), 1, 1, args.threshold)

\* Two adjacent interior orphans, each replaced by the colour the other had
\* in the input.
C24_Witness ==
    /\ pc = "done" /\ op = "cleanupOrphans"
    /\ \E c \in SrcCells :
        LET d == <<c[1] + 1, c[2]>>
        IN  /\ ~OnBoundary(c) /\ InRaster(d) /\ ~OnBoundary(d)
            /\ RGBOf(PixelAt(src, c[1], c[2])) # RGBOf(PixelAt(src, d[1], d[2]))
            /\ RGBOf(PixelAt(out, c[1], c[2])) = RGBOf(PixelAt(src, d[1], d[2]))
            /\ RGBOf(PixelAt(out, d[1], d[2])) = RGBOf(PixelAt(src, c[1], c[2]))

\* ----------------------------------------------------- properties of SpecOrphan
\* The positions 1..8 of the row-major scan of the neighbours of the interior
\* cell c that hold a pixel with alpha >= 10.
OpaqueNeighbours(c) ==
    {k \in 1..8 : neighborAt(src, c[1], c[2], k)[4] >= AlphaCutoff}

\* The opaque neighbours of c, among the first n of the scan, that have the
\* colour of the k-th.
SeenLike(c, k, n) ==
    Cardinality({j \in OpaqueNeighbours(c) :
        /\ j <= n
        /\ RGBOf(neighborAt(src, c[1], c[2], j))
             = RGBOf(neighborAt(src, c[1], c[2], k))})

\* The highest number of opaque neighbours of c that share one colour.
TopCount(c) ==
    CHOOSE n \in 1..8 :
        /\ \E k \in OpaqueNeighbours(c) : SeenLike(c, k, 8) = n
        /\ \A k \in OpaqueNeighbours(c) : SeenLike(c, k, 8) <= n

\* The first position of the scan that holds a most frequent colour.
FirstMet(c) ==
    CHOOSE k \in OpaqueNeighbours(c) :
        /\ SeenLike(c, k, 8) = TopCount(c)
        /\ \A j \in OpaqueNeighbours(c) :
            SeenLike(c, j, 8) = TopCount(c) => k <= j

\* The first position of the scan at which a colour has occurred TopCount
\* times.
FirstToReach(c) ==
    CHOOSE k \in OpaqueNeighbours(c) :
        /\ SeenLike(c, k, k) = TopCount(c)
        /\ \A j \in OpaqueNeighbours(c) :
            SeenLike(c, j, j) = TopCount(c) => k <= j

\* The pixels cleanupOrphans replaces: interior orphans with an opaque
\* neighbour to take a colour from.
ReplacedOrphan(c) ==
    /\ ~OnBoundary(c)
    /\ PixelAt(src, c[1], c[2])[4] >= AlphaCutoff
    /\ ~MatchingNeighbour(c)
    /\ OpaqueNeighbours(c) # {}

\* C11 as stated: the new RGB of a replaced orphan is the RGB that occurs
\* most often among its neighbours with alpha >= 10, and among colours tied
\* for the highest count it is the one that appears first in the row-major
\* scan of the 8 neighbours.
C11_TieFirstInScan ==
    (pc = "done" /\ op = "cleanupOrphans") =>
        \A c \in SrcCells :
            ReplacedOrphan(c) =>
                RGBOf(PixelAt(out, c[1], c[2]))
                    = RGBOf(neighborAt(src, c[1], c[2], FirstMet(c)))

\* C11 amended: the new RGB of a replaced orphan is a RGB that occurs most
\* often among its neighbours with alpha >= 10, and among colours tied for
\* the highest count it is the one that reaches that count first in the
\* row-major scan of the 8 neighbours.
C11_TieFirstToReach ==
    (pc = "done" /\ op = "cleanupOrphans") =>
        \A c \in SrcCells :
            ReplacedOrphan(c) =>
                /\ SeenLike(c, FirstToReach(c), 8) = TopCount(c)
                /\ RGBOf(PixelAt(out, c[1], c[2]))
                     = RGBOf(neighborAt(src, c[1], c[2], FirstToReach(c)))

\* A replaced orphan with two neighbour colours tied at a count of 2 or more,
\* the colour met first not being the one that reaches the count first.
C11_Witness ==
    /\ pc = "done" /\ op = "cleanupOrphans"
    /\ \E c \in SrcCells :
        /\ ReplacedOrphan(c)
        /\ TopCount(c) >= 2
        /\ RGBOf(neighborAt(src, c[1], c[2], FirstMet(c)))
             # RGBOf(neighborAt(src, c[1], c[2], FirstToReach(c)))
        /\ RGBOf(PixelAt(out, c[1], c[2]))
             = RGBOf(neighborAt(src, c[1], c[2], FirstToReach(c)))

\* The raster is one colour everywhere but at exactly one pixel.
SingleOffColour(img) ==
    \E i \in 1..Len(img.data) :
        /\ \E j \in 1..Len(img.data) : j # i
        /\ \A j, k \in (1..Len(img.data)) \ {i} : img.data[j] = img.data[k]
        /\ \A j \in (1..Len(img.data)) \ {i} : img.data[j] # img.data[i]

\* C12: for an image that is a uniform field with a single off-colour pixel,
\* cleanupOrphans applied to the result of cleanupOrphans returns that result:
\* the second pass changes no pixel.
C12_SecondPassChangesNothing ==
    (pc = "again" /\ SingleOffColour(src)) => out = pixelData

\* A uniform field whose single off-colour pixel the first pass replaced,
\* after the second pass.
C12_Witness ==
    /\ pc = "again"
    /\ SingleOffColour(src)
    /\ pixelData # src
    /\ out = pixelData

\* C28: cleanupOrphans introduces no colour: the RGB of every output pixel
\* with alpha >= 10 is the RGB of an input pixel with alpha >= 10, the pixel's
\* own or that of one of its 8 neighbours (so a raster whose opaque pixels
\* are palette entries stays one).
C28_NoNewColour ==
    (pc = "done" /\ op = "cleanupOrphans") =>
        \A c \in SrcCells :
            PixelAt(out, c[1], c[2])[4] >= AlphaCutoff =>
                \/ /\ PixelAt(src, c[1], c[2])[4] >= AlphaCutoff
                   /\ RGBOf(PixelAt(out, c[1], c[2]))
                        = RGBOf(PixelAt(src, c[1], c[2]))
                \/ /\ ~OnBoundary(c)
                   /\ \E k \in OpaqueNeighbours(c) :
                        RGBOf(PixelAt(out, c[1], c[2]))
                            = RGBOf(neighborAt(src, c[1], c[2], k))

\* An orphan with more transparent neighbours than opaque ones, replaced by
\* the colour of an opaque neighbour.
C28_Witness ==
    /\ pc = "done" /\ op = "cleanupOrphans"
    /\ \E c \in SrcCells :
        /\ ReplacedOrphan(c)
        /\ Cardinality(OpaqueNeighbours(c)) < 4
        /\ RGBOf(PixelAt(out, c[1], c[2])) # RGBOf(PixelAt(src, c[1], c[2]))
        /\ \E k \in OpaqueNeighbours(c) :
            RGBOf(PixelAt(out, c[1], c[2]))
                = RGBOf(neighborAt(src, c[1], c[2], k))

\* -------------------------------------------------------- properties of SpecBuf
AllStages ==
    {"downscaleMode", "downscaleAverage", "quantizeOklab",
     "quantizeOklabBayer", "quantizeBitReduce", "cleanupOrphans",
     "generateOutlines"}

\* C13: every stage (downscaleMode, downscaleAverage, quantizeOklab,
\* quantizeOklabBayer, quantizeBitReduce, cleanupOrphans, generateOutlines)
\* returns a buffer that did not exist before the call, and the buffer it
\* was given holds afterwards the bytes it held before.
C13_FreshBufferInputUntouched ==
    (pc = "done" /\ op \in AllStages) =>
        /\ refs.output # refs.input
        /\ refs.output = Len(heap)
        /\ Len(heap) = 2
        /\ heap[refs.input] = src
        /\ heap[refs.output] = out

\* A stage that copies its input (cleanupOrphans, generateOutlines or
\* quantizeBitReduce) and returned a raster that differs from it.
C13_Witness ==
    /\ pc = "done"
    /\ op \in {"quantizeBitReduce", "cleanupOrphans", "generateOutlines"}
    /\ refs.output # refs.input
    /\ heap[refs.input] = src
    /\ heap[refs.output] # src

\* ------------------------------------------------------- properties of SpecPipe
\* The names of the stages called so far, in order.
StagesRun == [k \in 1..Len(trace) |-> trace[k].stage]

DownscaleStages == {"downscaleMode", "downscaleAverage"}

QuantizeStages ==
    {"quantizeOklab", "quantizeOklabBayer", "quantizeBitReduce",
     "quantizePalette"}

\* The stage sequence is a downscale, a quantize, then cleanupOrphans if
\* withCleanup and generateOutlines if withOutlines, in this order.
RanInOrder(withCleanup, withOutlines) ==
    /\ Len(StagesRun) >= 2
    /\ StagesRun[1] \in DownscaleStages
    /\ StagesRun[2] \in QuantizeStages
    /\ SubSeq(StagesRun, 3, Len(StagesRun))
         = (IF withCleanup THEN <<"cleanupOrphans">> ELSE << >>)
             \o (IF withOutlines THEN <<"generateOutlines">> ELSE << >>)

C17_UnknownStrategyRaises ==
    (opts.pipeline \notin {"enhanced", "classic"}
        \/ opts.dithering \notin {"null", "bayer"}) =>
        /\ pc \in {"called", "thrown"}
        /\ trace = << >>
        /\ out = NoRaster

\* C19 as stated: the Bayer strength, the darken factor and the cleanup
\* threshold a pipeline stage runs with are the values of the options
\* ditherStrength, outlineDarkenFactor and cleanupColorThreshold.
C19_OptionsReachStages ==
    \A k \in 1..Len(trace) :
        /\ trace[k].stage = "quantizeOklabBayer" =>
            trace[k].param = opts.ditherStrength
        /\ trace[k].stage = "generateOutlines" =>
            trace[k].param = opts.outlineDarkenFactor
        /\ trace[k].stage = "cleanupOrphans" =>
            trace[k].param = opts.cleanupColorThreshold

\* C19 amended: the Bayer strength, the darken factor and the cleanup
\* threshold a pipeline stage runs with are the stage defaults 0.3, 0.35 and
\* 3, whatever the options ditherStrength, outlineDarkenFactor and
\* cleanupColorThreshold hold.
C19_StagesUseDefaults ==
    \A k \in 1..Len(trace) :
        /\ trace[k].stage = "quantizeOklabBayer" =>
            trace[k].param = DefaultStrength
        /\ trace[k].stage = "generateOutlines" =>
            trace[k].param = DefaultDarkenFactor
        /\ trace[k].stage = "cleanupOrphans" =>
            trace[k].param = DefaultThreshold

\* A finished run whose options ask for a strength other than 0.3 and whose
\* Bayer quantizer ran with 0.3.
C19_Witness ==
    /\ pc = "returned" /\ op = "processImage"
    /\ opts.ditherStrength # DefaultStrength
    /\ \E k \in 1..Len(trace) :
        /\ trace[k].stage = "quantizeOklabBayer"
        /\ trace[k].param = DefaultStrength

\* C20: in fixed-palette mode, for every option combination, every pixel
\* with alpha >= 10 of the raster processImage returns has the RGB of an
\* entry of the console palette.
C20_OutputWithinPalette ==
    (/\ pc = "returned" /\ op = "processImage"
     /\ CONSOLES[opts.consoleId].quantizeMode = "palette") =>
        \A i \in 1..Len(out.data) :
            out.data[i][4] >= AlphaCutoff =>
                \E j \in 1..Len(palette) : RGBOf(out.data[i]) = palette[j]

\* ------------------------------------------------------ properties of SpecSheet
\* The columns [i * floor(W / N), (i + 1) * floor(W / N)) of the sheet, as a
\* raster of its own (i from 0).
StripOf(i) ==
    LET fw == src.width \div args.frameCount
    IN  [width  |-> fw,
         height |-> src.height,
         data   |-> [j \in 1..(fw * src.height) |->
                        src.data[(((j - 1) \div fw) * src.width)
                                   + (i * fw) + ((j - 1) % fw) + 1]]]

\* The raster the stages of the options make of the raster strip alone.
FrameOf(strip) ==
    LET calls == frameCalls(opts, strip, EmptyCache)
    IN  calls[Len(calls)].result

SolidSheetOfThree ==
    /\ pc = "returned" /\ op = "processSpriteSheet"
    /\ args.frameCount = 3
    /\ \A j \in 1..Len(src.data) :
        src.data[j] = src.data[1] /\ src.data[j][4] = 255

\* Every pixel with alpha >= 10 of every frame has an RGB in the set cols.
FrameColoursWithin(cols) ==
    \A f \in 1..Len(frames) :
        \A j \in 1..Len(frames[f].pixelData.data) :
            frames[f].pixelData.data[j][4] >= AlphaCutoff =>
                RGBOf(frames[f].pixelData.data[j]) \in cols

Darkened(e) ==
    <<(e[1] * (1000 - DefaultDarkenFactor) + 500) \div 1000,
      (e[2] * (1000 - DefaultDarkenFactor) + 500) \div 1000,
      (e[3] * (1000 - DefaultDarkenFactor) + 500) \div 1000>>

AfterQuantize ==
    quantizeCall(opts, CONSOLES[opts.consoleId],
                 downscaleCall(opts, src, sizeOf(opts)).result,
                 EmptyCache).result

PastQuantize == {"step3", "step3outlines", "returned"}

\* C27: after quantizeOklab or quantizeOklabBayer every alpha is 0 or >= 10,
\* and cleanupOrphans and generateOutlines change no alpha, so the pixels
\* with alpha < 10 are the same after quantization, cleanup and outlining.
C27_TransparentSetStable ==
    (/\ pc \in PastQuantize
     /\ \E k \in 1..Len(trace) : trace[k].stage \in OklabOps) =>
        /\ \A i \in 1..Len(AfterQuantize.data) :
            \/ AfterQuantize.data[i][4] = 0
            \/ AfterQuantize.data[i][4] >= AlphaCutoff
        /\ pc = "step3" => pixelData = AfterQuantize
        /\ Len(pixelData.data) = Len(AfterQuantize.data)
        /\ \A i \in 1..Len(pixelData.data) :
            pixelData.data[i][4] = AfterQuantize.data[i][4]
        /\ {i \in 1..Len(pixelData.data) : pixelData.data[i][4] < AlphaCutoff}
             = {i \in 1..Len(AfterQuantize.data) :
                    AfterQuantize.data[i][4] < AlphaCutoff}

\* A run in which cleanup recoloured a pixel and the outline pass darkened
\* one, on an image with a pixel of alpha 9 and half transparent pixels.
C27_Witness ==
    /\ pc = "returned"
    /\ \E k \in 1..Len(trace) : trace[k].stage \in OklabOps
    /\ \E k \in 1..Len(trace) : trace[k].stage = "cleanupOrphans"
    /\ \E k \in 1..Len(trace) : trace[k].stage = "generateOutlines"
    /\ \E i \in 1..Len(src.data) :
        /\ src.data[i][4] \in 1..(AlphaCutoff - 1)
        /\ out.data[i][4] = 0
    /\ \E i \in 1..Len(src.data) : out.data[i][4] = 128
    /\ cleanupOrphans(AfterQuantize, DefaultThreshold) # AfterQuantize
    /\ out # cleanupOrphans(AfterQuantize, DefaultThreshold)

\* ------------------------------------------------------ properties of SpecCache
\* What holds of the cache and of the last call's result in every state.
CacheState ==
    /\ \A i, j \in 1..Len(trace) : trace[i] = trace[j] => i = j
    /\ \A p \in DOMAIN cache :
        /\ cache[p] = paletteToOklab(p)
        /\ getPaletteOklab(cache, p) = cache[p]
    /\ (pc = "returned" /\ op = "processImage") =>
        out = resultOf(frameCalls(opts, src, EmptyCache), src)
    /\ (pc = "returned" /\ op = "processSpriteSheet") =>
        frames = sheetFrom(opts, src, args.frameCount, 0,
                           sheetStart(EmptyCache)).frames

\* What holds of every call: it converts one palette at most, and it leaves
\* every stored table as it is.
CacheStep ==
    /\ Len(trace') <= Len(trace) + 1
    /\ \A p \in DOMAIN cache : p \in DOMAIN cache' /\ cache'[p] = cache[p]

\* C23: over any sequence of processImage and processSpriteSheet calls
\* getPaletteOklab converts a palette at most once and afterwards returns the
\* stored table; one processSpriteSheet call of N frames converts at most
\* once; and the quantized output of a call is the same whether the cache was
\* empty or populated when the call started.
C23_PaletteConvertedOnce == []CacheState /\ [][CacheStep]_vars

\* A sprite sheet call of several frames, made when both palettes had been
\* converted, the other palette last: it converted nothing and its frames
\* are quantized to the palette.
C23_Witness ==
    /\ pc = "returned" /\ op = "processSpriteSheet"
    /\ args.frameCount >= 2
    /\ usesOklabCache(opts, CONSOLES[opts.consoleId])
    /\ Len(trace) = 2
    /\ trace[1] = palette
    /\ \A k \in 1..Len(frames) :
        \A i \in 1..Len(frames[k].pixelData.data) :
            \E j \in 1..Len(palette) :
                RGBOf(frames[k].pixelData.data[i]) = palette[j]


\* ----------------------------------------------------- properties of SpecPlayer
\* C29: whenever the frame list of the player is non-empty, the current
\* frame index is at least 0 and less than the frame count.
C29_CurrentFrameInRange ==
    player.frames > 0 =>
        /\ 0 <= player._currentFrame
        /\ player._currentFrame < player.frames


\* --------------------------------------------------------- properties of SpecUI
\* C21: whenever at least one handleGenerate invocation is in progress the
\* Generate button is disabled, and when none is in progress it is enabled.
C21_ButtonDisabledWhileGenerating ==
    /\ (\E n \in DOMAIN invocations : InProgress(n)) => generateBtn.disabled
    /\ (\A n \in DOMAIN invocations : ~InProgress(n)) => ~generateBtn.disabled

\* Invocation n returns in this step through its try block / its catch block.
Stores(n) == invocations[n].at # "done" /\ invocations'[n].at = "done"
Fails(n) == invocations[n].at # "failed" /\ invocations'[n].at = "failed"

\* The frame store with sprite n in the slot that was selected when
\* invocation n started.
StoredAtStart(n) ==
    LET slot == invocations[n].slot
    IN  [frameStore EXCEPT ![<<slot.state, slot.view>>][slot.frame + 1] = n]

\* C30: an invocation that succeeds stores its sprite in the slot (animation
\* state, view, frame index) that was selected when it started, whatever was
\* selected or started meanwhile; one that fails leaves every stored frame
\* as it was.
C30_SpriteStoredInStartSlot ==
    [][\A n \in DOMAIN invocations :
          /\ Stores(n) => frameStore' = StoredAtStart(n)
          /\ Fails(n) => frameStore' = frameStore]_vars

====
